---- MODULE Spec2Model ----
(***************************************************************************)
(* Keong-MAS post-capture pipeline: the cleanup coordinator                *)
(* (APP/helpers/cleanup_manager.py), one image's pipeline                  *)
(* (APP/workers/rembg_worker.py with image_utils, image_crop,              *)
(* solid_background, jpg_converter) and the inference step (provider       *)
(* probe, session-creation chain, alpha-matting retries).                  *)
(*                                                                         *)
(* The specifications share the variables:                                 *)
(*   SpecCM    the coordinator's public API, called in any order;          *)
(*   Spec      one image driven through process_image, stage by stage;     *)
(*   SpecSess  worker construction and process_with_timeout, call by call; *)
(*   SpecBatch process_files over a batch, with cancel and the timeout;    *)
(*   SpecRace  register_file_in_use against cleanup_adjusted_mask_if_safe, *)
(*             statement by statement;                                     *)
(*   SpecHold  stages registering and unregistering the same path.         *)
(***************************************************************************)
EXTENDS Integers, Sequences, FiniteSets, TLC

VARIABLES
    active,     \* CleanupManager._active_files
    pending,    \* CleanupManager._pending_cleanup
    disk,       \* the files that exist on disk
    dels,       \* history: the deletions the last step made, each with the
                \* in-use status of the path at the moment of os.remove
    cfg,        \* the live config (config.json), read at call time
    cmLast,     \* history: the last coordinator API call and what it returned
    pc,         \* position of process_image
    outDir,     \* RemBgWorker.output_dir (<< >> when None: the PNG folder beside the source)
    srcExt,     \* extension of the source image
    tsNow,      \* int(time.time()) % 10000 at the levels stage
    enhanced,   \* enhanced_path of process_image ({} when a stage returned None)
    solidPath,  \* solid_bg_path of _apply_solid_background ({} when None)
    hist,       \* history of the image's pipeline (what each stage saw and did)
    toggles,    \* number of settings changes made by the user during the job
    sess,       \* state of worker construction / process_with_timeout
    batch,      \* state of process_files over a batch of images
    race,       \* two threads inside the coordinator, statement by statement
    holds,      \* history: the registrations stages hold, <<stage, path>>
    call        \* one call of a helper function: its arguments and its result

cmVars   == <<active, pending, disk, dels>>
pipeVars == <<pc, outDir, srcExt, tsNow, enhanced, solidPath, hist, toggles>>
vars     == <<active, pending, disk, dels, cfg, cmLast, pc, outDir, srcExt, tsNow,
              enhanced, solidPath, hist, toggles, sess, batch, race, holds, call>>
auxVars  == <<batch, race, holds, call>>

None == "None"

(***************************************************************************)
(* Paths.  A directory is the sequence of its components; a file is        *)
(* dir / stem ++ suffix ++ ("_" ++ ts, when ts is not empty) ++ "." ++ ext *)
(* where ts is the sequence of decimal digits of the timestamp tag.        *)
(***************************************************************************)
Basename(d) == IF Len(d) = 0 THEN "" ELSE d[Len(d)]
Dirname(d)  == IF Len(d) = 0 THEN d ELSE SubSeq(d, 1, Len(d) - 1)
Join(d, n)  == Append(d, n)
Upper(s)    == IF s \in {"png", "Png", "PNG"} THEN "PNG" ELSE s
IsPngDir(d) == Upper(Basename(d)) = "PNG"

\* f"{n}" for an int n in 0..9999: decimal digits, no zero padding
Digits(n) ==
    IF n >= 1000 THEN << n \div 1000, (n \div 100) % 10, (n \div 10) % 10, n % 10 >>
    ELSE IF n >= 100 THEN << n \div 100, (n \div 10) % 10, n % 10 >>
    ELSE IF n >= 10 THEN << n \div 10, n % 10 >>
    ELSE << n >>

File(d, stem, suffix, ts, ext) ==
    [dir |-> d, stem |-> stem, suffix |-> suffix, ts |-> ts, ext |-> ext]

OurSuffixes == {"_transparent", "_mask_adjusted", "_mask", "_solid_background"}

\* our_suffixes, in the order the loops try them
OurSuffixSeq == << "_transparent", "_mask_adjusted", "_mask", "_solid_background" >>

\* a stem whose own text contains an app suffix: the text before the suffix
\* and the suffix ("" when the stem contains none)
StemParts(stem) ==
    IF stem = "a_mask" THEN [head |-> "a", inner |-> "_mask"]
    ELSE [head |-> stem, inner |-> ""]

\* `suffix in x` for x an app suffix or ""
ContainsSuffix(x, suffix) ==
    x = suffix \/ (x = "_mask_adjusted" /\ suffix = "_mask")

\* "_mask_adjusted_" in mask_path
HasAdjustedTag(p) == p.suffix = "_mask_adjusted" /\ p.ts # << >>

(***************************************************************************)
(* The coordinator, as functions on cm = [active, pending, disk, dels].    *)
(* rmFail is the set of paths on which os.remove raises (a locked file).   *)
(***************************************************************************)
CM == [active |-> active, pending |-> pending, disk |-> disk, dels |-> {}]

SetCM(cm) ==
    /\ active' = cm.active
    /\ pending' = cm.pending
    /\ disk' = cm.disk
    /\ dels' = cm.dels

RegisterFileInUse(cm, p) == [cm EXCEPT !.active = @ \cup {p}]

UnregisterFileInUse(cm, p) == [cm EXCEPT !.active = @ \ {p}]

IsFileInUse(cm, p) == p \in cm.active

AddToPendingCleanup(cm, p) == [cm EXCEPT !.pending = @ \cup {p}]

\* os.remove(p) by the code path `by`; the history keeps whether p was
\* registered as in use when it was removed
OsRemove(cm, p, by) ==
    [cm EXCEPT !.disk = @ \ {p},
               !.dels = @ \cup {[path |-> p, by |-> by, inUse |-> p \in cm.active]}]

\* The same without the in-use check
CleanupNoInUseCheck(cm, p, saveMask, rmFail) ==
    IF ~HasAdjustedTag(p) THEN [ret |-> FALSE, cm |-> cm]
    ELSE IF p \notin cm.disk THEN [ret |-> TRUE, cm |-> cm]
    ELSE IF saveMask THEN [ret |-> FALSE, cm |-> cm]
    ELSE IF p \in rmFail THEN [ret |-> FALSE, cm |-> cm]
    ELSE [ret |-> TRUE,
          cm |-> [OsRemove(cm, p, "try_cleanup") EXCEPT !.pending = @ \ {p}]]

\* CleanupManager.cleanup_adjusted_mask_if_safe: [ret, cm]
CleanupAdjustedMaskIfSafe(cm, p, saveMask, rmFail) ==
    IF ~HasAdjustedTag(p) THEN [ret |-> FALSE, cm |-> cm]
    ELSE IF p \notin cm.disk THEN [ret |-> TRUE, cm |-> cm]
    ELSE IF IsFileInUse(cm, p)
        THEN [ret |-> FALSE, cm |-> AddToPendingCleanup(cm, p)]
    ELSE IF saveMask THEN [ret |-> FALSE, cm |-> cm]
    ELSE IF p \in rmFail THEN [ret |-> FALSE, cm |-> cm]
    ELSE [ret |-> TRUE,
          cm |-> [OsRemove(cm, p, "try_cleanup") EXCEPT !.pending = @ \ {p}]]

\* the loop of process_pending_cleanup over the copy of the pending set
RECURSIVE PendingLoop(_, _, _, _)
PendingLoop(cm, todo, saveMask, rmFail) ==
    IF todo = {} THEN cm
    ELSE LET p == CHOOSE x \in todo : TRUE
             cm1 == IF ~IsFileInUse(cm, p)
                    THEN CleanupAdjustedMaskIfSafe(cm, p, saveMask, rmFail).cm
                    ELSE cm
         IN PendingLoop(cm1, todo \ {p}, saveMask, rmFail)

\* CleanupManager.process_pending_cleanup
ProcessPendingCleanup(cm, saveMask, rmFail) ==
    PendingLoop(cm, cm.pending, saveMask, rmFail)

\* re.search(r'_(\d{4})$', file_name): the 4-digit tag, << >> when there is none
TimestampId(img) == IF Len(img.ts) = 4 THEN img.ts ELSE << >>

\* base_name of find_related_adjusted_masks / find_mask_file: the name cut at
\* the first app suffix, then a trailing _dddd removed.  [stem, rest]: rest is
\* what is left after the stem (a tag of fewer than 4 digits is not removed).
\* the loop over our_suffixes from its i-th entry: the text kept by the first
\* suffix found at a position > 0 ({} when the name is not cut)
RECURSIVE CutAtSuffix(_, _)
CutAtSuffix(img, i) ==
    IF i > Len(OurSuffixSeq) THEN {}
    ELSE LET parts == StemParts(img.stem)
         IN IF ContainsSuffix(parts.inner, OurSuffixSeq[i]) /\ parts.head # ""
            THEN {parts.head}
            ELSE IF /\ ~ContainsSuffix(parts.inner, OurSuffixSeq[i])
                    /\ ContainsSuffix(img.suffix, OurSuffixSeq[i])
                    /\ img.stem # ""
            THEN {img.stem}
            ELSE CutAtSuffix(img, i + 1)

BaseName(img) ==
    LET cut == CutAtSuffix(img, 1)
    IN IF cut # {} THEN [stem |-> CHOOSE x \in cut : TRUE, rest |-> << >>]
       ELSE IF Len(img.ts) = 4 THEN [stem |-> img.stem, rest |-> << >>]
       ELSE [stem |-> img.stem, rest |-> img.ts]

\* search_dirs of find_related_adjusted_masks / find_mask_file, in order
SearchDirs(baseDir) ==
    << baseDir >>
    \o (IF ~IsPngDir(baseDir) THEN << Join(baseDir, "PNG") >> ELSE << >>)
    \o << Join(Dirname(baseDir), "PNG") >>

\* the files of a directory that glob {base}_mask_adjusted_*.png matches
GlobAdjusted(dsk, d, base) ==
    {m \in dsk : /\ m.dir = d /\ m.ext = "png"
                 /\ m.suffix = "_mask_adjusted" /\ m.ts # << >>
                 /\ base.rest = << >> /\ m.stem = base.stem}

\* CleanupManager.find_related_adjusted_masks
FindRelatedAdjustedMasks(img, dsk) ==
    LET tsid == TimestampId(img)
        base == BaseName(img)
        dirs == SearchDirs(img.dir)
    IN UNION { IF tsid # << >>
               THEN {m \in GlobAdjusted(dsk, dirs[i], base) : m.ts = tsid}
               ELSE GlobAdjusted(dsk, dirs[i], base) : i \in 1..Len(dirs) }

\* the loop of final_cleanup_for_image: unregister, then remove when it exists
RECURSIVE FinalLoop(_, _, _)
FinalLoop(cm, todo, rmFail) ==
    IF todo = {} THEN cm
    ELSE LET m == CHOOSE x \in todo : TRUE
             cm1 == UnregisterFileInUse(cm, m)
             cm2 == IF m \in cm1.disk /\ m \notin rmFail
                    THEN OsRemove(cm1, m, "final_cleanup") ELSE cm1
         IN FinalLoop(cm2, todo \ {m}, rmFail)

\* CleanupManager.final_cleanup_for_image
FinalCleanupForImage(cm, img, saveMask, rmFail) ==
    IF saveMask THEN cm
    ELSE ProcessPendingCleanup(
             FinalLoop(cm, FindRelatedAdjustedMasks(img, cm.disk), rmFail),
             saveMask, rmFail)

\* CleanupManager.should_defer_cleanup (with check_remaining_operations)
ShouldDeferCleanup(c) == c.crop \/ c.solid \/ c.jpg

\* CleanupManager.intelligent_cleanup_after_image_utils
IntelligentCleanupAfterImageUtils(cm, img, c, rmFail) ==
    IF c.saveMask THEN cm
    ELSE IF ShouldDeferCleanup(c) THEN cm
    ELSE FinalCleanupForImage(cm, img, c.saveMask, rmFail)

\* CleanupManager.intelligent_cleanup_after_all_operations
IntelligentCleanupAfterAllOperations(cm, img, c, rmFail) ==
    IF c.saveMask THEN cm
    ELSE FinalCleanupForImage(cm, img, c.saveMask, rmFail)

\* cleanup_original_temp_files(original_transparent_path, original_mask_path)
CleanupOriginalTempFiles(cm, files, rmFail) ==
    [cm EXCEPT !.disk = @ \ (files \ rmFail),
               !.dels = @ \cup {[path |-> f, by |-> "original_temp", inUse |-> f \in cm.active]
                                   : f \in (files \cap cm.disk) \ rmFail}]

(***************************************************************************)
(* SpecCM: the coordinator's public API called in any order by the stages, *)
(* on a few paths of one PNG folder.                                       *)
(***************************************************************************)
Configs == [saveMask : BOOLEAN, crop : BOOLEAN, solid : BOOLEAN, jpg : BOOLEAN]

CmDir == << "S", "PNG" >>

CmMasks == { File(CmDir, "a", "_mask_adjusted", Digits(t), "png") : t \in {1234, 42} }

CmPaths == CmMasks \cup { File(CmDir, "a", "_mask", << >>, "png") }

CmImages == { File(CmDir, "a", "_transparent", Digits(1234), "png") }

NoCall == [op |-> "none", path |-> None, ret |-> FALSE, wasActive |-> FALSE,
           wasOnDisk |-> FALSE, wasPending |-> FALSE]

Call(op, p, ret) ==
    [op |-> op, path |-> p, ret |-> ret, wasActive |-> p \in active,
     wasOnDisk |-> p \in disk, wasPending |-> p \in pending]

PipeIdle ==
    /\ pc = "off" /\ outDir = << >> /\ srcExt = "png" /\ tsNow = 0
    /\ enhanced = {} /\ solidPath = {} /\ hist = << >> /\ toggles = 0

SessIdle == sess = << >>

AuxIdle == batch = << >> /\ race = << >> /\ holds = {} /\ call = << >>

InitCM ==
    /\ active = {} /\ pending = {} /\ disk = {} /\ dels = {}
    /\ cfg \in Configs
    /\ cmLast = NoCall
    /\ PipeIdle
    /\ SessIdle
    /\ AuxIdle

\* a stage writes a file (adjusted_mask.save, output_mask.save)
CmSaveFile(p) ==
    /\ p \notin disk
    /\ SetCM([CM EXCEPT !.disk = @ \cup {p}])
    /\ cmLast' = Call("save", p, FALSE)
    /\ UNCHANGED <<cfg, pipeVars, sess, auxVars>>

\* the user changes a setting (the config is read live)
CmSetConfig(c) ==
    /\ c # cfg
    /\ cfg' = c
    /\ cmLast' = NoCall
    /\ dels' = {}
    /\ UNCHANGED <<active, pending, disk, pipeVars, sess, auxVars>>

CmRegister(p) ==
    /\ SetCM(RegisterFileInUse(CM, p))
    /\ cmLast' = Call("register", p, FALSE)
    /\ UNCHANGED <<cfg, pipeVars, sess, auxVars>>

CmUnregister(p) ==
    /\ SetCM(UnregisterFileInUse(CM, p))
    /\ cmLast' = Call("unregister", p, FALSE)
    /\ UNCHANGED <<cfg, pipeVars, sess, auxVars>>

CmAddPending(p) ==
    /\ SetCM(AddToPendingCleanup(CM, p))
    /\ cmLast' = Call("add_pending", p, FALSE)
    /\ UNCHANGED <<cfg, pipeVars, sess, auxVars>>

CmTryCleanup(p, rmFail) ==
    LET r == CleanupAdjustedMaskIfSafe(CM, p, cfg.saveMask, rmFail)
    IN /\ SetCM(r.cm)
       /\ cmLast' = Call("try_cleanup", p, r.ret)
       /\ UNCHANGED <<cfg, pipeVars, sess, auxVars>>

CmProcessPending(rmFail) ==
    /\ SetCM(ProcessPendingCleanup(CM, cfg.saveMask, rmFail))
    /\ cmLast' = [NoCall EXCEPT !.op = "process_pending"]
    /\ UNCHANGED <<cfg, pipeVars, sess, auxVars>>

CmFinalCleanup(img, rmFail) ==
    /\ SetCM(FinalCleanupForImage(CM, img, cfg.saveMask, rmFail))
    /\ cmLast' = [NoCall EXCEPT !.op = "final_cleanup"]
    /\ UNCHANGED <<cfg, pipeVars, sess, auxVars>>

CmAfterImageUtils(img, rmFail) ==
    /\ SetCM(IntelligentCleanupAfterImageUtils(CM, img, cfg, rmFail))
    /\ cmLast' = [NoCall EXCEPT !.op = "after_image_utils"]
    /\ UNCHANGED <<cfg, pipeVars, sess, auxVars>>

CmAfterAllOperations(img, rmFail) ==
    /\ SetCM(IntelligentCleanupAfterAllOperations(CM, img, cfg, rmFail))
    /\ cmLast' = [NoCall EXCEPT !.op = "after_all_operations"]
    /\ UNCHANGED <<cfg, pipeVars, sess, auxVars>>

NextCM ==
    \/ \E p \in CmPaths : CmSaveFile(p)
    \/ \E c \in Configs : CmSetConfig(c)
    \/ \E p \in CmPaths : CmRegister(p)
    \/ \E p \in CmPaths : CmUnregister(p)
    \/ \E p \in CmPaths : CmAddPending(p)
    \/ \E p \in CmPaths, rmFail \in SUBSET CmMasks : CmTryCleanup(p, rmFail)
    \/ \E rmFail \in SUBSET CmMasks : CmProcessPending(rmFail)
    \/ \E img \in CmImages, rmFail \in SUBSET CmMasks : CmFinalCleanup(img, rmFail)
    \/ \E img \in CmImages, rmFail \in SUBSET CmMasks : CmAfterImageUtils(img, rmFail)
    \/ \E img \in CmImages, rmFail \in SUBSET CmMasks : CmAfterAllOperations(img, rmFail)

SpecCM == InitCM /\ [][NextCM]_vars

MaxToggles == 1

SrcDir == << "S" >>

Stem == "a"

OutDirs == { << >>, << "OUT" >>, << "X", "png" >>, SrcDir }

TsValues == {42, 1234}

SrcExts == {"png", "jpg"}

\* process_image: base_output_dir
BaseOutputDir == IF outDir = << >> THEN Join(SrcDir, "PNG") ELSE outDir

Source == File(SrcDir, Stem, "", << >>, srcExt)

\* _convert_to_png_if_needed: temp_png_path
TempPng == File(SrcDir, Stem, "_temp_processing", << >>, "png")

\* _process_with_rembg: output_path, mask_path
Cutout == File(BaseOutputDir, Stem, "", << >>, "png")

RawMask == File(BaseOutputDir, Stem, "_mask", << >>, "png")

\* the files whose removal may fail in a step
RmFailSets == SUBSET {f \in disk : f.suffix \in {"_mask_adjusted", "_mask"}}

NoHist ==
    [adj |-> {},             \* the adjusted mask the levels stage wrote
     stages |-> << >>,       \* the stages that ran, in order
     cropLooked |-> FALSE,   \* the crop stage looked for the mask
     cropFound |-> {},       \* the mask the crop stage found
     saveMaskVals |-> {},    \* the values save_mask had during the job
     faults |-> FALSE,       \* a stage raised or a removal failed
     cropRaised |-> FALSE,   \* the crop stage was enabled and raised
     cropped |-> FALSE,      \* the crop stage cropped the image
     solidIn |-> {},         \* the image the solid-background stage was given
     solidFailed |-> FALSE,  \* the solid-background stage was enabled and gave nothing
     jpgWanted |-> FALSE,    \* JPG export was enabled when its turn came
     jpgIn |-> {},           \* the image the JPG conversion read
     seen |-> [k \in {"saveMask", "crop", "solid", "jpg"} |-> {}]]
                             \* per setting, the values the cleanup decisions read

Init ==
    /\ active = {} /\ pending = {} /\ dels = {}
    /\ cfg \in Configs
    /\ cmLast = NoCall
    /\ outDir \in OutDirs
    /\ srcExt \in SrcExts
    /\ tsNow \in TsValues
    /\ disk = {Source}
    /\ pc = "idle"
    /\ enhanced = {} /\ solidPath = {}
    /\ hist = [NoHist EXCEPT !.saveMaskVals = {cfg.saveMask}]
    /\ toggles = 0
    /\ SessIdle
    /\ AuxIdle

Ran(stage, fault) ==
    [hist EXCEPT !.stages = Append(@, stage), !.faults = @ \/ fault]

\* config_manager.get_value loads config.json at every call: a cleanup
\* decision reading the settings `keys` sees their values of that moment
Observe(h, keys) ==
    [h EXCEPT !.seen = [k \in DOMAIN @ |-> IF k \in keys THEN @[k] \cup {cfg[k]}
                                            ELSE @[k]]]

\* intelligent_cleanup_after_image_utils reads save_mask and, with save_mask
\* off, check_remaining_operations reads the three stage switches
KeysAfterImageUtils ==
    IF cfg.saveMask THEN {"saveMask"} ELSE {"saveMask", "crop", "solid", "jpg"}

\* process_image, finally: the temporary PNG is removed when it exists
RemoveTemp(cm) == IF TempPng \in cm.disk THEN OsRemove(cm, TempPng, "temp") ELSE cm

\* process_image lines 190-225: normalisation to PNG, model preparation, load
PrepareImage(ok) ==
    /\ pc = "idle"
    /\ IF ok
       THEN /\ pc' = "prepared"
            /\ SetCM([CM EXCEPT !.disk = IF srcExt = "png" THEN @ ELSE @ \cup {TempPng}])
       ELSE /\ pc' = "failed"
            /\ SetCM(CM)
    /\ hist' = Ran("prepare", ~ok)
    /\ UNCHANGED <<cfg, cmLast, outDir, srcExt, tsNow, enhanced, solidPath, toggles, sess, auxVars>>

\* process_image lines 227-230 with _process_with_rembg: the cutout and the
\* raw mask are written, or the image is given up
ProcessWithRembg(outcome) ==
    /\ pc = "prepared"
    /\ CASE outcome = "ok" ->
              /\ pc' = "cutout"
              /\ SetCM([CM EXCEPT !.disk = @ \cup {Cutout, RawMask}])
         [] outcome = "fail_after_cutout" ->
              /\ pc' = "failed"
              /\ SetCM(RemoveTemp([CM EXCEPT !.disk = @ \cup {Cutout}]))
         [] OTHER ->
              /\ pc' = "failed"
              /\ SetCM(RemoveTemp(CM))
    /\ hist' = Ran("rembg", outcome # "ok")
    /\ UNCHANGED <<cfg, cmLast, outDir, srcExt, tsNow, enhanced, solidPath, toggles, sess, auxVars>>

\* The same, removing the cutout and the raw mask as soon as the adjusted
\* mask is written, before the result is saved
EnhanceLevelsCleaningEarly(cm, imagePath, maskPath, outcome, c, t, rmFail) ==
    LET baseDir == imagePath.dir
        pngDir == IF IsPngDir(baseDir) THEN baseDir ELSE Join(baseDir, "PNG")
        adj == File(pngDir, imagePath.stem, "_mask_adjusted", Digits(t), "png")
        out == File(pngDir, imagePath.stem, "_transparent", Digits(t), "png")
        cm0 == IF outcome = "mask_save_failed" THEN cm
               ELSE RegisterFileInUse([cm EXCEPT !.disk = @ \cup {adj}], adj)
        cm1 == CleanupOriginalTempFiles(cm0, {imagePath, maskPath}, rmFail)
        cm2 == [cm1 EXCEPT !.disk = @ \cup {out}]
    IN IF outcome = "fail_early" \/ imagePath \notin cm.disk \/ maskPath \notin cm.disk
       THEN [path |-> {}, adj |-> {}, cm |-> cm]
       ELSE IF outcome = "fail_after_mask"
       THEN [path |-> {}, adj |-> cm1.disk \cap {adj}, cm |-> cm1]
       ELSE [path |-> {out}, adj |-> cm1.disk \cap {adj},
             cm |-> IntelligentCleanupAfterImageUtils(cm2, out, c, rmFail)]

\* image_utils.enhance_transparency_with_levels(image_path, mask_path,
\* save_adjusted_mask=True, cleanup_temp_files_after=False):
\* [path: the returned path, adj: the adjusted mask written, cm]
EnhanceTransparencyWithLevels(cm, imagePath, maskPath, outcome, c, t, rmFail) ==
    LET baseDir == imagePath.dir
        pngDir == IF IsPngDir(baseDir) THEN baseDir ELSE Join(baseDir, "PNG")
        adj == File(pngDir, imagePath.stem, "_mask_adjusted", Digits(t), "png")
        out == File(pngDir, imagePath.stem, "_transparent", Digits(t), "png")
        cm1 == IF outcome = "mask_save_failed" THEN cm
               ELSE RegisterFileInUse([cm EXCEPT !.disk = @ \cup {adj}], adj)
        cm2 == [cm1 EXCEPT !.disk = @ \cup {out}]
    IN IF outcome = "fail_early" \/ imagePath \notin cm.disk \/ maskPath \notin cm.disk
       THEN [path |-> {}, adj |-> {}, cm |-> cm]
       ELSE IF outcome = "fail_after_mask"
       THEN [path |-> {}, adj |-> cm1.disk \cap {adj}, cm |-> cm1]
       ELSE [path |-> {out}, adj |-> cm1.disk \cap {adj},
             cm |-> IntelligentCleanupAfterImageUtils(cm2, out, c, rmFail)]

\* The same, removing the mask whatever save_mask says
WorkerRemoveIgnoringSaveMask(cm, enh, outputDir, fileName, saveMask, rmFail) ==
    LET maskPathAdjusted == File(outputDir, fileName, "_mask_adjusted", enh.ts, "png")
    IN IF maskPathAdjusted \in cm.disk /\ maskPathAdjusted \notin rmFail
       THEN OsRemove(cm, maskPathAdjusted, "worker")
       ELSE cm

\* RemBgWorker._enhance_transparency lines 689-700: with save_mask off the
\* worker removes {output_dir}/{file_name}_mask_adjusted_{ts}.png itself
WorkerRemoveAdjustedMask(cm, enh, outputDir, fileName, saveMask, rmFail) ==
    LET maskPathAdjusted == File(outputDir, fileName, "_mask_adjusted", enh.ts, "png")
    IN IF ~saveMask /\ maskPathAdjusted \in cm.disk /\ maskPathAdjusted \notin rmFail
       THEN OsRemove(cm, maskPathAdjusted, "worker")
       ELSE cm

\* RemBgWorker._enhance_transparency
EnhanceTransparency(outcome, rmFail) ==
    /\ pc = "cutout"
    /\ LET saveMask == cfg.saveMask
           r == EnhanceTransparencyWithLevels(CM, Cutout, RawMask, outcome, cfg,
                                              tsNow, rmFail)
           after == IF r.path = {} THEN r.cm
                    ELSE LET enh == CHOOSE e \in r.path : TRUE
                         IN CleanupOriginalTempFiles(
                                WorkerRemoveAdjustedMask(r.cm, enh, BaseOutputDir, Stem,
                                                         saveMask, rmFail),
                                {Cutout, RawMask}, rmFail)
       IN /\ SetCM(after)
          /\ enhanced' = r.path
          /\ hist' = [Observe(Ran("levels", outcome # "ok" \/ rmFail # {}),
                               IF r.path = {} THEN {} ELSE KeysAfterImageUtils)
                          EXCEPT !.adj = r.adj]
    /\ pc' = "levels"
    /\ UNCHANGED <<cfg, cmLast, outDir, srcExt, tsNow, solidPath, toggles, sess, auxVars>>

\* image_crop.find_mask_file(mask_path, prefer_adjusted=True): the candidates
\* (the adjusted masks of the first search directory that holds one; the most
\* recent of them is taken), {} when nothing is found
FindMaskFile(maskPath, dsk) ==
    LET base == BaseName(maskPath)
        dirs == SearchDirs(maskPath.dir)
        hits == {i \in 1..Len(dirs) : GlobAdjusted(dsk, dirs[i], base) # {}}
        first == CHOOSE i \in hits : \A j \in hits : i <= j
        parent == Dirname(maskPath.dir)
        locs == (IF ~IsPngDir(maskPath.dir)
                 THEN << [maskPath EXCEPT !.dir = Join(maskPath.dir, "PNG")] >>
                 ELSE << >>)
                \o << [maskPath EXCEPT !.dir = parent],
                      [maskPath EXCEPT !.dir = Join(parent, "PNG")] >>
        there == {i \in 1..Len(locs) : locs[i] \in dsk}
    IN IF maskPath \in dsk THEN {maskPath}
       ELSE IF hits # {} THEN GlobAdjusted(dsk, dirs[first], base)
       ELSE IF there # {} THEN {locs[CHOOSE i \in there : \A j \in there : i <= j]}
       ELSE {}

\* image_crop.crop_transparent_image(image_path, mask_path, output_path=None)
\* with the mask `m` that find_mask_file returned ({} for none)
CropTransparentImage(cm, imagePath, m, outcome, c, rmFail) ==
    LET cm1 == IF m = {} THEN cm
               ELSE RegisterFileInUse(cm, CHOOSE x \in m : TRUE)
        unreg == IF m = {} THEN cm1
                 ELSE UnregisterFileInUse(cm1, CHOOSE x \in m : TRUE)
    IN IF ~c.crop THEN unreg
       ELSE IF m = {} THEN cm1
       ELSE IF outcome \in {"raise", "no_bounds"} THEN unreg
       ELSE IntelligentCleanupAfterAllOperations(unreg, imagePath, c, rmFail)

\* RemBgWorker._apply_auto_crop
ApplyAutoCrop(outcome, rmFail) ==
    /\ pc = "levels" /\ enhanced # {}
    /\ IF ~cfg.crop
       THEN /\ SetCM(CM)
            /\ hist' = hist
       ELSE LET maskToUse == File(BaseOutputDir, Stem, "_mask_adjusted", << >>, "png")
                imagePath == CHOOSE e \in enhanced : TRUE
            IN \E m \in (IF FindMaskFile(maskToUse, disk) = {} THEN {{}}
                         ELSE {{x} : x \in FindMaskFile(maskToUse, disk)}) :
                  /\ SetCM(CropTransparentImage(CM, imagePath, m, outcome, cfg, rmFail))
                  /\ hist' = [Observe(Ran("crop", outcome = "raise" \/ rmFail # {}),
                                      IF m # {} /\ outcome = "cropped"
                                      THEN {"saveMask"} ELSE {})
                                 EXCEPT !.cropLooked = TRUE, !.cropFound = m,
                                        !.cropRaised = (outcome = "raise"),
                                        !.cropped = (outcome = "cropped" /\ m # {})]
    /\ pc' = "crop"
    /\ UNCHANGED <<cfg, cmLast, outDir, srcExt, tsNow, enhanced, solidPath, toggles, sess, auxVars>>

\* solid_background.add_solid_background(image_path, margin): [path, cm]
AddSolidBackground(cm, imagePath, ok, c, rmFail) ==
    LET pngDir == IF IsPngDir(imagePath.dir) THEN imagePath.dir
                  ELSE Join(imagePath.dir, "PNG")
        out == File(pngDir, imagePath.stem, "_solid_background", imagePath.ts, "png")
    IN IF ~c.solid \/ ~ok \/ imagePath \notin cm.disk THEN [path |-> {}, cm |-> cm]
       ELSE [path |-> {out},
             cm |-> IntelligentCleanupAfterAllOperations(
                        [cm EXCEPT !.disk = @ \cup {out}], out, c, rmFail)]

\* RemBgWorker._apply_solid_background, the solid-background half
ApplySolidBackground(ok, rmFail) ==
    /\ pc = "crop"
    /\ LET r == AddSolidBackground(CM, CHOOSE e \in enhanced : TRUE, ok, cfg, rmFail)
       IN /\ SetCM(r.cm)
          /\ solidPath' = r.path
          /\ hist' = IF cfg.solid
                      THEN [Observe(Ran("solid", ~ok \/ rmFail # {}),
                                    IF r.path = {} THEN {} ELSE {"saveMask"})
                               EXCEPT !.solidIn = enhanced, !.solidFailed = (r.path = {})]
                      ELSE hist
    /\ pc' = "solid"
    /\ UNCHANGED <<cfg, cmLast, outDir, srcExt, tsNow, enhanced, toggles, sess, auxVars>>

\* jpg_converter.process_jpg_conversion(image_path) with convert_to_jpg: the
\* JPG is written beside the PNG folder and final cleanup is asked for twice
ProcessJpgConversion(cm, imagePath, ok, c, rmFail) ==
    LET base == imagePath.dir
        jpgDir == IF IsPngDir(base) THEN Join(Dirname(base), "JPG") ELSE Join(base, "JPG")
        out == File(jpgDir, imagePath.stem, "", imagePath.ts, "jpg")
        cm1 == IntelligentCleanupAfterAllOperations(
                   [cm EXCEPT !.disk = @ \cup {out}], out, c, rmFail)
    IN IF imagePath \notin cm.disk \/ ~c.jpg \/ ~ok THEN cm
       ELSE IntelligentCleanupAfterAllOperations(cm1, out, c, rmFail)

\* The same, converting the solid-background image only
JpgInputSolidOnly(solid, enh) == solid

\* _apply_solid_background line 753: solid_bg_path if solid_bg_path else
\* enhanced_path
JpgInput(solid, enh) == IF solid # {} THEN solid ELSE enh

\* RemBgWorker._apply_solid_background, the JPG half
JpgExport(ok, rmFail) ==
    /\ pc = "solid"
    /\ LET input == JpgInput(solidPath, enhanced)
           read == IF cfg.jpg THEN input \cap disk ELSE {}
       IN /\ IF input = {} THEN SetCM(CM)
             ELSE SetCM(ProcessJpgConversion(CM, CHOOSE e \in input : TRUE, ok, cfg,
                                             rmFail))
          /\ hist' = IF cfg.jpg
                      THEN [Observe(Ran("jpg", ~ok \/ rmFail # {}),
                                    IF ok /\ read # {} THEN {"saveMask"} ELSE {})
                               EXCEPT !.jpgWanted = TRUE, !.jpgIn = read]
                      ELSE hist
    /\ pc' = "jpg"
    /\ UNCHANGED <<cfg, cmLast, outDir, srcExt, tsNow, enhanced, solidPath, toggles, sess, auxVars>>

\* process_image lines 240-258: file_completed is emitted, then the finally
\* block removes the temporary PNG
Complete ==
    /\ pc = "jpg" \/ (pc = "levels" /\ enhanced = {})
    /\ pc' = "completed"
    /\ SetCM(RemoveTemp(CM))
    /\ hist' = Ran("completed", FALSE)
    /\ UNCHANGED <<cfg, cmLast, outDir, srcExt, tsNow, enhanced, solidPath, toggles, sess, auxVars>>

\* the user flips one setting while the image is being processed
ToggleSetting(c) ==
    /\ pc \in {"prepared", "cutout", "levels", "crop", "solid", "jpg"}
    /\ toggles < MaxToggles
    /\ Cardinality({k \in DOMAIN cfg : c[k] # cfg[k]}) = 1
    /\ cfg' = c
    /\ toggles' = toggles + 1
    /\ hist' = [hist EXCEPT !.saveMaskVals = @ \cup {c.saveMask}]
    /\ dels' = {}
    /\ UNCHANGED <<active, pending, disk, cmLast, pc, outDir, srcExt, tsNow, enhanced,
                   solidPath, sess, auxVars>>

PipelineStep ==
    \/ \E ok \in BOOLEAN : PrepareImage(ok)
    \/ \E o \in {"ok", "fail", "fail_after_cutout"} : ProcessWithRembg(o)
    \/ \E o \in {"ok", "fail_early", "mask_save_failed", "fail_after_mask"} :
          \E rmFail \in RmFailSets : EnhanceTransparency(o, rmFail)
    \/ \E o \in {"cropped", "no_bounds", "raise"} :
          \E rmFail \in RmFailSets : ApplyAutoCrop(o, rmFail)
    \/ \E ok \in BOOLEAN : \E rmFail \in RmFailSets : ApplySolidBackground(ok, rmFail)
    \/ \E ok \in BOOLEAN : \E rmFail \in RmFailSets : JpgExport(ok, rmFail)
    \/ Complete

Next ==
    \/ PipelineStep
    \/ \E c \in Configs : ToggleSetting(c)

Spec == Init /\ [][Next]_vars

\* no setting was changed while the image was processed, no stage raised and
\* no removal failed
CleanRun == toggles = 0 /\ ~hist.faults

\* C2 as stated: at every moment an adjusted-mask file is deleted, by any code
\* path, its path is not in the coordinator's in-use set (checked on the runs
\* in which no setting is changed, no stage raises and no removal fails).
C2_AsStated ==
    CleanRun => \A d \in dels : HasAdjustedTag(d.path) => ~d.inUse

\* C3 as stated: with crop enabled, the adjusted mask written by the levels
\* stage still exists when the crop stage looks for it, so the crop stage
\* finds it (checked on the runs in which no setting is changed, no stage
\* raises and no removal fails).
C3_AsStated ==
    (CleanRun /\ hist.cropLooked /\ hist.adj # {}) => hist.cropFound = hist.adj

\* C4: if save_mask is true for the whole job, no cleanup operation deletes an
\* adjusted mask: once the levels stage has written the adjusted mask it stays
\* on disk in every later state, up to and including Completed.
C4_SaveMaskKeepsMask ==
    hist.saveMaskVals = {TRUE} =>
        /\ \A d \in dels : ~HasAdjustedTag(d.path)
        /\ hist.adj \subseteq disk

\* C4 witness: a job with save_mask true all along, in the default PNG folder,
\* with crop, solid background and JPG export all enabled and run, has
\* reached Completed with its adjusted mask on disk.
C4_Witness ==
    /\ pc = "completed"
    /\ hist.saveMaskVals = {TRUE}
    /\ outDir = << >>
    /\ hist.stages = << "prepare", "rembg", "levels", "crop", "solid", "jpg", "completed" >>
    /\ hist.adj # {} /\ hist.adj \subseteq disk
    /\ hist.cropFound = hist.adj

\* C5 as stated: if save_mask is false and the pipeline runs to Completed, no
\* adjusted mask of the image remains on disk, whatever the other settings,
\* the output directory and the outcome of the crop stage (checked on the runs
\* in which no setting is changed, no stage raises and no removal fails).
C5_AsStated ==
    (pc = "completed" /\ CleanRun /\ hist.saveMaskVals = {FALSE}) =>
        hist.adj \cap disk = {}

(***************************************************************************)
(* SpecSess: worker construction, model preparation and the inference      *)
(* thread process_with_timeout, one external call (session creation,       *)
(* inference) per action.  The outcome of each call is the environment's.  *)
(***************************************************************************)
CUDA == "CUDAExecutionProvider"

DML == "DmlExecutionProvider"

ROCM == "ROCMExecutionProvider"

CPU == "CPUExecutionProvider"

GpuProviders == {CUDA, DML, ROCM}

\* model_manager.DEFAULT_MODEL
DefaultModel == "isnet-general-use"

\* the models the user can select in the config
SelectableModels == {"isnet-general-use", "u2net"}

\* the characters of the model names
Spell(n) ==
    CASE n = "isnet-general-use" ->
            << "i","s","n","e","t","-","g","e","n","e","r","a","l","-","u","s","e" >>
      [] n = "u2net" -> << "u","2","n","e","t" >>
      [] n = "u2netp" -> << "u","2","n","e","t","p" >>
      [] n = "u2net_human_seg" ->
            << "u","2","n","e","t","_","h","u","m","a","n","_","s","e","g" >>
      [] n = "u2net_cloth_seg" ->
            << "u","2","n","e","t","_","c","l","o","t","h","_","s","e","g" >>

UpperAlpha == << "A","B","C","D","E","F","G","H","I","J","K","L","M",
                 "N","O","P","Q","R","S","T","U","V","W","X","Y","Z" >>

LowerAlpha == << "a","b","c","d","e","f","g","h","i","j","k","l","m",
                 "n","o","p","q","r","s","t","u","v","w","x","y","z" >>

\* str.lower()
Lower(w) ==
    [i \in 1..Len(w) |->
        IF \E k \in 1..26 : UpperAlpha[k] = w[i]
        THEN LowerAlpha[CHOOSE k \in 1..26 : UpperAlpha[k] = w[i]]
        ELSE w[i]]

\* str.replace('-', '_')
DashToUnderscore(w) == [i \in 1..Len(w) |-> IF w[i] = "-" THEN "_" ELSE w[i]]

\* a in b, for strings
IsSubstring(a, b) ==
    \E k \in 0..(Len(b) - Len(a)) : \A i \in 1..Len(a) : b[k + i] = a[i]

\* candidates of the family fallback, in the order of the list
Candidates == << "isnet-general-use", "u2net", "u2netp", "u2net_human_seg",
                 "u2net_cloth_seg" >>

\* cand in name_lower or (cand.replace('-', '_') in name_lower)
MatchesBySubstring(cand, name) ==
    \/ IsSubstring(Spell(cand), Lower(Spell(name)))
    \/ IsSubstring(DashToUnderscore(Spell(cand)), Lower(Spell(name)))

\* the first candidate at index >= i that matches by substring; 0 when none
NextMatch(i, name) ==
    LET js == {j \in i..Len(Candidates) : MatchesBySubstring(Candidates[j], name)}
    IN IF js = {} THEN 0 ELSE CHOOSE j \in js : \A k \in js : j <= k

\* gpu_fix.detect_best_provider
DetectBestProvider(avail) ==
    IF CUDA \in avail THEN CUDA
    ELSE IF DML \in avail THEN DML
    ELSE IF ROCM \in avail THEN ROCM
    ELSE CPU

\* gpu_fix.get_provider_list
GetProviderList(avail) ==
    IF DetectBestProvider(avail) = CPU THEN << >> ELSE << DetectBestProvider(avail) >>

\* model_manager.prepare_model: the default model, whatever was asked for
PrepareModel(selected) == DefaultModel

\* recommend_alpha_matting_params: the bucket's baseline
\* (shift in thousandths, discard_threshold as 10^-discard)
RecommendAlphaMattingParams(bucket) ==
    CASE bucket = "low" -> [fg |-> 220, bg |-> 20, erode |-> 15, discard |-> 4, shift |-> 20]
      [] bucket = "medium" -> [fg |-> 240, bg |-> 10, erode |-> 10, discard |-> 4, shift |-> 10]
      [] OTHER -> [fg |-> 250, bg |-> 5, erode |-> 5, discard |-> 4, shift |-> 1]

\* the `attempts` list of process_with_timeout
Attempts(bucket) ==
    LET a == RecommendAlphaMattingParams(bucket)
    IN << a,
          [a EXCEPT !.discard = 4, !.shift = 20],
          [a EXCEPT !.discard = 4, !.shift = 50],
          [a EXCEPT !.discard = 5, !.shift = 10],
          [a EXCEPT !.discard = 6, !.shift = 100] >>

Buckets == {"low", "medium", "high"}

InitSess ==
    /\ active = {} /\ pending = {} /\ disk = {} /\ dels = {}
    /\ cfg = [saveMask |-> TRUE, crop |-> FALSE, solid |-> FALSE, jpg |-> FALSE]
    /\ cmLast = NoCall
    /\ PipeIdle
    /\ AuxIdle
    /\ \E avail \in SUBSET (GpuProviders \cup {CPU}), cudaPaths \in BOOLEAN,
          fileExists \in BOOLEAN, bucket \in Buckets, selected \in SelectableModels :
         sess = [pc |-> "new",
                 avail |-> avail,            \* onnxruntime.get_available_providers()
                 cudaPaths |-> cudaPaths,    \* get_cuda_paths found CUDA or cuDNN
                 fileExists |-> fileExists,  \* the model's .onnx file is on disk
                 bucket |-> bucket,          \* contrast bucket of the input image
                 selected |-> selected,      \* get_selected_model()
                 modelName |-> "",           \* model_name of process_image
                 probes |-> << >>,           \* history: verification probes run
                 probeRan |-> FALSE,         \* the test session of the thread was tried
                 probeProvs |-> {},          \* providers the test session reported
                 gpuAvailable |-> FALSE,     \* gpu_available
                 tried |-> << >>,            \* history: session creations tried
                 idx |-> 0,                  \* loop index (family, matting)
                 triedFamily |-> "",         \* tried_family ("" for None)
                 session |-> {},             \* the session, once created
                 notices |-> << >>,          \* status_update emissions
                 attempts |-> << >>,         \* history: matting parameter sets tried
                 failures |-> << >>,         \* the k of each "Attempt k gagal" printed
                 cutoutFrom |-> "none",      \* what produced output_img
                 cutoutAttempt |-> 0,        \* the matting attempt that produced it
                 plainRuns |-> 0]            \* inferences without alpha matting

SessUnchanged == UNCHANGED <<active, pending, disk, dels, cfg, cmLast, pipeVars, auxVars>>

\* the providers a session created with the argument `providers` may report:
\* {} when the session does not expose them
ReportedProviders(providers) ==
    IF providers = << >> THEN { {}, {CPU} }
    ELSE { {}, {CPU}, {providers[1], CPU} }

\* RemBgWorker.__init__ with gpu_fix.ensure_cuda_accessible: when a CUDA or
\* cuDNN install is found, _try_create_rembg_cuda_session creates a test
\* session with get_provider_list()
WorkerInit ==
    /\ sess.pc = "new"
    /\ sess' = [sess EXCEPT !.pc = "constructed",
                            !.probes = IF sess.cudaPaths
                                       THEN Append(@, "init_test_session") ELSE @]
    /\ SessUnchanged

\* process_image lines 209-216
PrepareModelStep ==
    /\ sess.pc = "constructed"
    /\ sess' = [sess EXCEPT !.pc = "prepared", !.modelName = PrepareModel(sess.selected)]
    /\ SessUnchanged

\* process_with_timeout lines 286-339: the test session
ProbeStep(s, raised, provs) ==
    LET providers == GetProviderList(s.avail)
    IN IF providers = << >> THEN [s EXCEPT !.pc = "probed"]
       ELSE [s EXCEPT !.pc = "probed",
                      !.probes = Append(@, "test_session"),
                      !.probeRan = TRUE,
                      !.probeProvs = IF raised THEN {} ELSE provs,
                      !.gpuAvailable = ~raised /\ CUDA \in provs]

ProbeProviders ==
    /\ sess.pc = "prepared"
    /\ \E raised \in BOOLEAN, provs \in ReportedProviders(GetProviderList(sess.avail)) :
          sess' = ProbeStep(sess, raised, provs)
    /\ SessUnchanged

\* one rembg.new_session(model, providers=providers) of the real session
SessionAttempt(s, step, model, ok, provs) ==
    LET providers == GetProviderList(s.avail)
        t == [step |-> step, model |-> model, providers |-> providers, ok |-> ok]
    IN [s EXCEPT !.tried = Append(@, t),
                 !.session = IF ok THEN {[step |-> step, model |-> model,
                                          providersArg |-> providers, provs |-> provs]}
                             ELSE @]

\* lines 391-405: no session: the file is given up; a family fallback is
\* announced on status_update
EndFallback(s) ==
    IF s.session = {} THEN [s EXCEPT !.pc = "aborted"]
    ELSE [s EXCEPT !.pc = "session",
                   !.notices = IF s.triedFamily # ""
                               THEN Append(@, [kind |-> "fallback",
                                               requested |-> s.modelName,
                                               used |-> s.triedFamily])
                               ELSE @]

\* lines 341-347: the session by model name
SessionByName ==
    /\ sess.pc = "probed"
    /\ \E ok \in BOOLEAN, provs \in ReportedProviders(GetProviderList(sess.avail)) :
          LET s1 == SessionAttempt(sess, "name", sess.modelName, ok, provs)
          IN sess' = [s1 EXCEPT !.pc = IF ok THEN "session" ELSE "after_name"]
    /\ SessUnchanged

\* where the fallback goes when the file step gave no session
EnterFamily(s) ==
    IF NextMatch(1, s.modelName) # 0
    THEN [s EXCEPT !.pc = "family_sub", !.idx = NextMatch(1, s.modelName)]
    ELSE [s EXCEPT !.pc = "family_iter", !.idx = 1]

\* lines 349-358: the session by file path, when the file exists
SessionByFile ==
    /\ sess.pc = "after_name"
    /\ IF sess.fileExists
       THEN \E ok \in BOOLEAN, provs \in ReportedProviders(GetProviderList(sess.avail)) :
               LET s1 == SessionAttempt(sess, "file", sess.modelName, ok, provs)
               IN sess' = IF ok THEN EndFallback(s1) ELSE EnterFamily(s1)
       ELSE sess' = EnterFamily(sess)
    /\ SessUnchanged

\* lines 366-377: one candidate of the substring loop
SubstringStep(s, ok, provs) ==
    LET cand == Candidates[s.idx]
        s1 == SessionAttempt(s, "family_sub", cand, ok, provs)
        nxt == NextMatch(s.idx + 1, s.modelName)
    IN IF ok THEN EndFallback([s1 EXCEPT !.triedFamily = cand])
       ELSE IF nxt # 0 THEN [s1 EXCEPT !.idx = nxt]
       ELSE [s1 EXCEPT !.pc = "family_iter", !.idx = 1]

FamilySubstring ==
    /\ sess.pc = "family_sub"
    /\ \E ok \in BOOLEAN, provs \in ReportedProviders(GetProviderList(sess.avail)) :
          sess' = SubstringStep(sess, ok, provs)
    /\ SessUnchanged

\* lines 379-389: one candidate of the plain iteration
IterateStep(s, ok, provs) ==
    LET cand == Candidates[s.idx]
        s1 == SessionAttempt(s, "family_iter", cand, ok, provs)
    IN IF ok THEN EndFallback([s1 EXCEPT !.triedFamily = cand])
       ELSE IF s.idx < Len(Candidates) THEN [s1 EXCEPT !.idx = s.idx + 1]
       ELSE EndFallback(s1)

FamilyIterate ==
    /\ sess.pc = "family_iter"
    /\ \E ok \in BOOLEAN, provs \in ReportedProviders(GetProviderList(sess.avail)) :
          sess' = IterateStep(sess, ok, provs)
    /\ SessUnchanged

\* lines 407-511: the provider shown to the user; a session that does not
\* expose its providers is verified by a tiny inference when CUDA is available
DetermineProvider ==
    /\ sess.pc = "session"
    /\ LET sp == (CHOOSE x \in sess.session : TRUE).provs
           used(verified) ==
               IF sp # {} THEN DetectBestProvider(sp)
               ELSE IF CUDA \in sess.avail /\ verified THEN CUDA ELSE CPU
       IN \E verified \in BOOLEAN :
             sess' = [sess EXCEPT
                        !.pc = "matting", !.idx = 1,
                        !.probes = IF sp = {} /\ CUDA \in sess.avail
                                   THEN Append(@, "verify_inference") ELSE @,
                        !.notices = Append(@, [kind |-> "provider",
                                               requested |-> "",
                                               used |-> used(verified)])]
    /\ SessUnchanged

\* The same loop, giving the image up when the last attempt has failed
MattingStepGivesUp(s, ok) ==
    LET s1 == [s EXCEPT !.attempts = Append(@, Attempts(s.bucket)[s.idx])]
    IN IF ok THEN [s1 EXCEPT !.pc = "cutout", !.cutoutFrom = "matting",
                             !.cutoutAttempt = s.idx]
       ELSE IF s.idx < Len(Attempts(s.bucket))
       THEN [s1 EXCEPT !.failures = Append(@, s.idx), !.idx = s.idx + 1]
       ELSE [s1 EXCEPT !.failures = Append(@, s.idx), !.pc = "failed"]

\* The same loop without the break on success
MattingStepNoBreak(s, ok) ==
    LET s1 == [s EXCEPT !.attempts = Append(@, Attempts(s.bucket)[s.idx]),
                        !.failures = IF ok THEN @ ELSE Append(@, s.idx),
                        !.cutoutFrom = IF ok THEN "matting" ELSE @,
                        !.cutoutAttempt = IF ok THEN s.idx ELSE @]
    IN IF s.idx < Len(Attempts(s.bucket)) THEN [s1 EXCEPT !.idx = s.idx + 1]
       ELSE [s1 EXCEPT !.pc = IF s1.cutoutFrom = "matting" THEN "cutout" ELSE "plain"]

\* lines 574-592: one pass of the alpha-matting loop
MattingStep(s, ok) ==
    LET s1 == [s EXCEPT !.attempts = Append(@, Attempts(s.bucket)[s.idx])]
    IN IF ok THEN [s1 EXCEPT !.pc = "cutout", !.cutoutFrom = "matting",
                             !.cutoutAttempt = s.idx]
       ELSE IF s.idx < Len(Attempts(s.bucket))
       THEN [s1 EXCEPT !.failures = Append(@, s.idx), !.idx = s.idx + 1]
       ELSE [s1 EXCEPT !.failures = Append(@, s.idx), !.pc = "plain"]

MattingAttempt ==
    /\ sess.pc = "matting"
    /\ \E ok \in BOOLEAN : sess' = MattingStep(sess, ok)
    /\ SessUnchanged

\* lines 594-597: the inference without alpha matting
PlainRemove ==
    /\ sess.pc = "plain"
    /\ \E ok \in BOOLEAN :
          sess' = [sess EXCEPT !.plainRuns = @ + 1,
                               !.pc = IF ok THEN "cutout" ELSE "failed",
                               !.cutoutFrom = IF ok THEN "plain" ELSE @]
    /\ SessUnchanged

\* lines 599-622: the cutout is saved, the mask is inferred and saved
SaveCutoutAndMask ==
    /\ sess.pc = "cutout"
    /\ \E ok \in BOOLEAN : sess' = [sess EXCEPT !.pc = IF ok THEN "done" ELSE "failed"]
    /\ SessUnchanged

NextSess ==
    \/ WorkerInit
    \/ PrepareModelStep
    \/ ProbeProviders
    \/ SessionByName
    \/ SessionByFile
    \/ FamilySubstring
    \/ FamilyIterate
    \/ DetermineProvider
    \/ MattingAttempt
    \/ PlainRemove
    \/ SaveCutoutAndMask

SpecSess == InitSess /\ [][NextSess]_vars

\* the session of the image, once there is one
TheSession == CHOOSE x \in sess.session : TRUE

\* the inference of the image has started or is over
InferenceStarted == sess.pc \in {"matting", "plain", "cutout", "done", "failed"}

\* C6: the real session is given a GPU provider only if the test session of
\* the thread ran and reported that provider in use; after a probe that
\* raised or reported no GPU provider the real session gets no GPU provider.
C6_AsStated ==
    sess.session # {} =>
        (TheSession.providersArg # << >> =>
            (sess.probeRan /\ TheSession.providersArg[1] \in sess.probeProvs))

\* C7: with none of CUDA, DirectML, ROCm available the selection is CPU (an
\* empty provider list) and no verification probe, test session or test
\* inference, has run at any point from the worker's construction on.
C7_AsStated ==
    (sess # << >> /\ sess.avail \cap GpuProviders = {}) =>
        /\ DetectBestProvider(sess.avail) = CPU
        /\ GetProviderList(sess.avail) = << >>
        /\ sess.probes = << >>

StepRank(step) ==
    CASE step = "name" -> 1
      [] step = "file" -> 2
      [] step = "family_sub" -> 3
      [] step = "family_iter" -> 4

\* C8: session creation goes name, then file (only after the name failed),
\* then the family (only after the file failed or was absent): candidates
\* matching by substring first, plain iteration only when no candidate
\* matched by substring; nothing is tried after the first success.
C8_AsStated ==
    LET t == sess.tried
    IN /\ t # << >> => t[1].step = "name"
       /\ \A i \in 1..Len(t), j \in 1..Len(t) :
             i < j => (~t[i].ok /\ StepRank(t[i].step) <= StepRank(t[j].step))
       /\ \A i \in 1..Len(t) :
             /\ t[i].step = "file" => (i = 2 /\ sess.fileExists)
             /\ t[i].step \in {"family_sub", "family_iter"} =>
                   (sess.fileExists => \E k \in 1..(i - 1) : t[k].step = "file")
             /\ t[i].step = "family_sub" => MatchesBySubstring(t[i].model, sess.modelName)
             /\ t[i].step = "family_iter" =>
                   \A k \in 1..Len(Candidates) :
                       ~MatchesBySubstring(Candidates[k], sess.modelName)

\* C9: when the session came from the file path, from a family candidate, or
\* is of another model than the one selected, a notice naming the model used
\* and the model requested has been emitted by the time inference starts.
C9_AsStated ==
    (InferenceStarted /\ sess.session # {}
        /\ (TheSession.step # "name" \/ TheSession.model # sess.selected)) =>
        \E i \in 1..Len(sess.notices) :
            /\ sess.notices[i].kind = "fallback"
            /\ sess.notices[i].used = TheSession.model
            /\ sess.notices[i].requested \in {sess.selected, sess.modelName}

\* C10: the matting attempts are the parameter sets (a)..(e) in that order;
\* when attempt k succeeds it supplies the cutout, exactly the k-1 attempts
\* before it have been logged as failed, and no attempt follows it.
C10_FirstSuccessWins ==
    sess # << >> =>
        LET A == Attempts(sess.bucket)
            n == Len(sess.attempts)
        IN /\ n <= Len(A)
           /\ \A i \in 1..n : sess.attempts[i] = A[i]
           /\ sess.cutoutFrom = "matting" =>
                 /\ sess.cutoutAttempt = n
                 /\ sess.failures = [i \in 1..(n - 1) |-> i]
           /\ sess.cutoutFrom # "matting" =>
                 /\ sess.cutoutAttempt = 0
                 /\ sess.failures = [i \in 1..n |-> i]

\* (a)-(d) raised, (e) succeeded and its cutout was saved
C10_Witness ==
    /\ sess # << >>
    /\ sess.pc = "done"
    /\ sess.cutoutFrom = "matting"
    /\ sess.cutoutAttempt = 5
    /\ sess.failures = << 1, 2, 3, 4 >>
    /\ sess.attempts = Attempts(sess.bucket)

\* C11: when all five matting attempts have raised, one inference without
\* alpha matting is run, exactly once, and its result is the cutout; the
\* image is given up only if that inference or a later save raises, never on
\* the matting failures alone, and otherwise goes on to the mask step and
\* returns the cutout and the mask to the levels stage.
C11_NoMattingFallback ==
    /\ sess.plainRuns <= 1
    /\ sess.plainRuns = 1 => sess.failures = << 1, 2, 3, 4, 5 >>
    /\ sess.failures = << 1, 2, 3, 4, 5 >> =>
          /\ sess.pc \in {"plain", "cutout", "done", "failed"}
          /\ sess.pc = "plain" <=> sess.plainRuns = 0
          /\ sess.pc \in {"cutout", "done"} =>
                (sess.cutoutFrom = "plain" /\ sess.cutoutAttempt = 0)
          /\ sess.pc = "failed" => sess.plainRuns = 1

\* all five attempts raised, the inference without matting supplied the
\* cutout and the cutout and the mask were saved
C11_Witness ==
    /\ sess.pc = "done"
    /\ sess.failures = << 1, 2, 3, 4, 5 >>
    /\ sess.plainRuns = 1
    /\ sess.cutoutFrom = "plain"

\* the place of a stage in the order of process_image
StageRank(st) ==
    CASE st = "prepare" -> 1
      [] st = "rembg" -> 2
      [] st = "levels" -> 3
      [] st = "crop" -> 4
      [] st = "solid" -> 5
      [] st = "jpg" -> 6
      [] st = "completed" -> 7

\* the optional stages the config enables
EnabledStages ==
    (IF cfg.crop THEN {"crop"} ELSE {})
        \cup (IF cfg.solid THEN {"solid"} ELSE {})
        \cup (IF cfg.jpg THEN {"jpg"} ELSE {})

\* C12 as stated: the stages of an image run one after the other in the
\* order prepare, cutout, levels, crop, solid background, JPG, completed; an
\* optional stage that the config disables never runs; completion is reported
\* only when every enabled stage has run (checked on the runs in which no
\* setting is changed).
C12_AsStated ==
    toggles = 0 =>
        /\ \A i \in 1..Len(hist.stages), j \in 1..Len(hist.stages) :
              i < j => StageRank(hist.stages[i]) < StageRank(hist.stages[j])
        /\ \A i \in 1..Len(hist.stages) :
              hist.stages[i] \in {"crop", "solid", "jpg"} =>
                  hist.stages[i] \in EnabledStages
        /\ pc = "completed" =>
              \A st \in {"prepare", "rembg", "levels"} \cup EnabledStages :
                  \E i \in 1..Len(hist.stages) : hist.stages[i] = st

(***************************************************************************)
(* SpecBatch: process_files over a batch.  process_image is followed stage *)
(* by stage, so that a cancel request of the UI thread (worker.abort =     *)
(* True) can fall between any two stages; the inference thread of an image *)
(* that timed out keeps running and delivers its result later.             *)
(***************************************************************************)
MaxImages == 2

\* what process_files finds at a path: a supported image file, or a path
\* that is neither a supported file nor a directory
FileKinds == {"image", "unsupported"}

\* the stages of process_image, each with the outcomes it can have
StageOutcomes(stage) ==
    CASE stage = "rembg" -> {"ok", "fail", "timeout"}
      [] OTHER -> {"ok", "fail"}

InitBatch ==
    /\ active = {} /\ pending = {} /\ disk = {} /\ dels = {}
    /\ cfg = [saveMask |-> TRUE, crop |-> TRUE, solid |-> TRUE, jpg |-> TRUE]
    /\ cmLast = NoCall
    /\ PipeIdle
    /\ SessIdle
    /\ race = << >> /\ holds = {} /\ call = << >>
    /\ \E n \in 1..MaxImages : \E files \in [1..n -> FileKinds] :
         batch = [files |-> files,                       \* self.file_paths
                  i |-> 1,                               \* position of the for loop
                  pc |-> "loop",
                  stage |-> "",                          \* the stage to run next
                  abort |-> FALSE,                       \* self.abort
                  order |-> << >>,                       \* history: process_image calls
                  started |-> {},                        \* history: stages started
                  signals |-> [k \in 1..n |-> << >>],    \* file_completed emissions
                  logs |-> [k \in 1..n |-> << >>],       \* console lines of a failure
                  ticks |-> 0,                           \* progress emissions of the loop
                  threads |-> {},                        \* abandoned inference threads
                  queues |-> [k \in 1..n |-> {}],        \* result_queue of each call
                  finished |-> 0]                        \* finished emissions

BatchUnchanged ==
    UNCHANGED <<active, pending, disk, dels, cfg, cmLast, pipeVars, sess, race, holds,
                call>>

\* The same, leaving the loop when the image failed
AfterImageStopOnFailure(b, failed) ==
    [b EXCEPT !.pc = IF failed THEN "end" ELSE "loop",
              !.stage = "", !.i = b.i + 1, !.ticks = b.ticks + 1]

\* process_files lines 88-91: process_image has returned (it lets no
\* exception out); the loop counts the file and goes on
AfterImage(b, failed) ==
    [b EXCEPT !.pc = "loop", !.stage = "", !.i = b.i + 1, !.ticks = b.ticks + 1]

\* process_image lines 240-242: file_completed is emitted
EmitCompleted(b) ==
    [b EXCEPT !.signals[b.i] = Append(@, "file_completed")]

\* one stage of process_image on the current image
RunStage(b, stage, outcome) ==
    LET b1 == [b EXCEPT !.started = @ \cup {[img |-> b.i, stage |-> stage,
                                              afterCancel |-> b.abort]}]
    IN CASE stage = "prepare" ->
              IF outcome = "ok" THEN [b1 EXCEPT !.pc = "image", !.stage = "rembg"]
              ELSE AfterImage([b1 EXCEPT !.logs[b.i] = Append(@, "error")], TRUE)
         [] stage = "rembg" ->
              IF outcome = "ok"
              THEN [b1 EXCEPT !.stage = "levels", !.queues[b.i] = {"result"}]
              ELSE IF outcome = "timeout"
              THEN AfterImage([b1 EXCEPT !.logs[b.i] = Append(@, "timeout"),
                                         !.threads = @ \cup {b.i}], TRUE)
              ELSE AfterImage([b1 EXCEPT !.logs[b.i] = Append(@, "error")], TRUE)
         [] stage = "levels" ->
              IF outcome = "ok" THEN [b1 EXCEPT !.stage = "crop"]
              ELSE AfterImage(EmitCompleted([b1 EXCEPT !.logs[b.i] = Append(@, "error")]),
                              FALSE)
         [] stage = "crop" -> [b1 EXCEPT !.stage = "solid"]
         [] stage = "solid" -> [b1 EXCEPT !.stage = "jpg"]
         [] stage = "jpg" -> AfterImage(EmitCompleted(b1), FALSE)

\* process_files lines 81-104: the head of the loop; a supported file enters
\* process_image, whose first stage runs at once
BatchNextFile ==
    /\ batch.pc = "loop"
    /\ IF batch.i > Len(batch.files) \/ batch.abort
       THEN batch' = [batch EXCEPT !.pc = "end"]
       ELSE IF batch.files[batch.i] = "image"
       THEN \E o \in StageOutcomes("prepare") :
               batch' = RunStage([batch EXCEPT !.order = Append(@, batch.i)], "prepare", o)
       ELSE batch' = [batch EXCEPT !.i = batch.i + 1, !.ticks = batch.ticks + 1]
    /\ BatchUnchanged

\* process_image lines 227-242: the next stage of the image
BatchStage ==
    /\ batch.pc = "image"
    /\ \E o \in StageOutcomes(batch.stage) : batch' = RunStage(batch, batch.stage, o)
    /\ BatchUnchanged

\* process_files lines 106-107: finished is emitted
BatchFinish ==
    /\ batch.pc = "end"
    /\ batch' = [batch EXCEPT !.pc = "finished", !.finished = @ + 1]
    /\ BatchUnchanged

\* the UI thread sets worker.abort = True
RequestCancel ==
    /\ batch.pc # "finished"
    /\ ~batch.abort
    /\ batch' = [batch EXCEPT !.abort = TRUE]
    /\ BatchUnchanged

\* the inference thread of an image that timed out ends: its result goes to
\* the result_queue of its own _process_with_rembg call, which nobody reads
LateThreadDelivers ==
    /\ \E k \in batch.threads :
          batch' = [batch EXCEPT !.threads = @ \ {k}, !.queues[k] = {"result"}]
    /\ BatchUnchanged

WorkerStep == BatchNextFile \/ BatchStage \/ BatchFinish

NextBatch ==
    \/ BatchNextFile
    \/ BatchStage
    \/ BatchFinish
    \/ RequestCancel
    \/ LateThreadDelivers

\* the worker thread keeps running and every stage ends (the inference is
\* bounded by PROCESSING_TIMEOUT)
SpecBatch == InitBatch /\ [][NextBatch]_vars /\ WF_vars(WorkerStep)

\* the images of the batch, in input order
ImagesOf(files) == SelectSeq([k \in 1..Len(files) |-> k], LAMBDA k : files[k] = "image")

\* C13: an image that fails (a stage raises, the session cannot be created,
\* the inference times out) does not stop the batch: while no cancel is
\* requested the images are processed one after the other in input order,
\* all of them by the time the batch ends, and the batch always ends with
\* finished emitted once.
C13_BatchContinues ==
    /\ [](/\ \A a \in 1..Len(batch.order), c \in 1..Len(batch.order) :
                a < c => batch.order[a] < batch.order[c]
          /\ batch.finished <= 1
          /\ (batch.pc = "finished" /\ ~batch.abort) =>
                (batch.order = ImagesOf(batch.files) /\ batch.finished = 1))
    /\ <>(batch.pc = "finished")

\* the first image timed out, the second was processed to completion and the
\* batch ended
C13_Witness ==
    /\ batch.pc = "finished"
    /\ ~batch.abort
    /\ Len(batch.files) = 2
    /\ batch.logs[1] = << "timeout" >>
    /\ batch.order = << 1, 2 >>
    /\ batch.signals[2] = << "file_completed" >>

\* C14 as stated: once cancel has been requested, the stage in flight may
\* finish but no further stage of the image is started, and no further image.
C14_AsStated ==
    \A e \in batch.started : ~e.afterCancel

\* C15 as stated: when the batch has ended every file of it has exactly one
\* terminal outcome reported on the outward channel, and an image whose
\* inference timed out has the outcome failed with the reason timeout; the
\* result an abandoned thread delivers later is reported for no image.
C15_AsStated ==
    batch.pc = "finished" =>
        \A k \in 1..Len(batch.files) :
            /\ Len(batch.signals[k]) = 1
            /\ batch.logs[k] = << "timeout" >> => batch.signals[k] = << "failed_timeout" >>

\* C16: from the moment the cutout has been generated, whatever stage fails
\* afterwards and after every cleanup, an output of the image is on disk and
\* is the path the worker holds: the enhanced image once the levels stage has
\* produced it, the cutout until then.
C16_OutputExists ==
    pc \in {"cutout", "levels", "crop", "solid", "jpg", "completed"} =>
        IF enhanced # {} THEN enhanced \subseteq disk ELSE Cutout \in disk

\* the levels stage failed after the cutout was generated; the image is over
\* and the cutout is still there
C16_Witness ==
    /\ pc = "completed"
    /\ hist.stages = << "prepare", "rembg", "levels", "completed" >>
    /\ hist.faults
    /\ enhanced = {}
    /\ Cutout \in disk

\* the stage has run for the image
HasRun(st) == \E i \in 1..Len(hist.stages) : hist.stages[i] = st

\* C17: when the crop stage raises, the image is not given up and the solid
\* background stage is given the uncropped enhanced image; when the solid
\* background stage raises or produces nothing, the JPG conversion, if
\* enabled, is given the enhanced image; in both cases the image goes on to
\* completed: until then a next stage step is always possible, and every step
\* moves the image one stage forward.
C17_SkipAndContinue ==
    /\ [](/\ hist.cropRaised =>
                /\ pc \in {"crop", "solid", "jpg", "completed"}
                /\ ~hist.cropped
                /\ enhanced # {} /\ enhanced \subseteq disk
                /\ HasRun("solid") => hist.solidIn = enhanced
                /\ (hist.jpgWanted /\ solidPath = {}) => hist.jpgIn = enhanced
          /\ hist.solidFailed =>
                /\ pc \in {"solid", "jpg", "completed"}
                /\ solidPath = {}
                /\ hist.jpgWanted => (HasRun("jpg") /\ hist.jpgIn = enhanced
                                        /\ enhanced # {}))
    /\ []((hist.cropRaised \/ hist.solidFailed) =>
              (pc # "completed" => ENABLED PipelineStep))
    /\ [][(hist.cropRaised \/ hist.solidFailed) =>
              \/ pc' = pc
              \/ << pc, pc' >> \in { << "crop", "solid" >>, << "solid", "jpg" >>,
                                     << "jpg", "completed" >> }]_vars

\* the crop stage raised, the solid-background stage gave nothing, the JPG
\* conversion read the enhanced image and the image was completed
C17_Witness ==
    /\ pc = "completed"
    /\ hist.cropRaised
    /\ hist.solidFailed
    /\ hist.jpgWanted
    /\ hist.jpgIn = enhanced
    /\ enhanced # {}
    /\ hist.stages = << "prepare", "rembg", "levels", "crop", "solid", "jpg",
                        "completed" >>

\* C18 as stated: within one image each setting is seen with one value by all
\* the cleanup and deferral decisions that read it, whatever the user changes
\* between two stages.
C18_AsStated == \A k \in DOMAIN hist.seen : Cardinality(hist.seen[k]) <= 1

(***************************************************************************)
(* SpecRace: one thread calls cleanup_adjusted_mask_if_safe(p) while       *)
(* another writes, registers, uses and unregisters the same p.  A `with    *)
(* self._lock` block is one step; the statements between two blocks are    *)
(* steps of their own.                                                     *)
(***************************************************************************)
MaxCalls == 2

RacePath == File(CmDir, "a", "_mask_adjusted", << 1 >>, "png")

InitRace ==
    /\ active = {} /\ pending = {} /\ dels = {}
    /\ disk \in {{}, {RacePath}}
    /\ cfg \in {c \in Configs : ~c.crop /\ ~c.solid /\ ~c.jpg}
    /\ cmLast = NoCall
    /\ PipeIdle
    /\ SessIdle
    /\ batch = << >> /\ holds = {} /\ call = << >>
    /\ race = [cl |-> "idle",        \* the cleaning thread's position
               clCalls |-> 0,        \* its finished calls
               rg |-> "idle",        \* the registering thread's position
               rgCalls |-> 0,        \* its finished register/unregister pairs
               heldDel |-> FALSE]    \* history: p removed while held by rg

RaceUnchanged == UNCHANGED <<cfg, cmLast, pipeVars, sess, batch, holds, call>>

\* the cleaning thread returns from cleanup_adjusted_mask_if_safe
RaceReturn(r) == [r EXCEPT !.cl = "idle", !.clCalls = @ + 1]

\* the stage writes the mask (adjusted_mask.save) before registering it
RaceSaveFile ==
    /\ race.rg = "idle" /\ race.rgCalls < MaxCalls
    /\ SetCM([CM EXCEPT !.disk = @ \cup {RacePath}])
    /\ race' = [race EXCEPT !.rg = "saved"]
    /\ RaceUnchanged

\* register_file_in_use(p): the lock block, then the call returns
RaceRegister ==
    /\ race.rg = "saved"
    /\ SetCM(RegisterFileInUse(CM, RacePath))
    /\ race' = [race EXCEPT !.rg = "using"]
    /\ RaceUnchanged

\* unregister_file_in_use(p)
RaceUnregister ==
    /\ race.rg = "using"
    /\ SetCM(UnregisterFileInUse(CM, RacePath))
    /\ race' = [race EXCEPT !.rg = "idle", !.rgCalls = @ + 1]
    /\ RaceUnchanged

\* cleanup_adjusted_mask_if_safe lines 199-205: the name test and
\* os.path.exists
RaceExists ==
    /\ race.cl = "idle" /\ race.clCalls < MaxCalls
    /\ SetCM(CM)
    /\ race' = IF ~HasAdjustedTag(RacePath) \/ RacePath \notin disk
               THEN RaceReturn(race)
               ELSE [race EXCEPT !.cl = "check"]
    /\ RaceUnchanged

\* line 208: is_file_in_use(p), a lock block of its own
RaceInUseCheck ==
    /\ race.cl = "check"
    /\ SetCM(CM)
    /\ race' = [race EXCEPT !.cl = IF IsFileInUse(CM, RacePath) THEN "defer"
                                   ELSE "config"]
    /\ RaceUnchanged

\* lines 209-211: add_to_pending_cleanup(p), return False
RaceAddPending ==
    /\ race.cl = "defer"
    /\ SetCM(AddToPendingCleanup(CM, RacePath))
    /\ race' = RaceReturn(race)
    /\ RaceUnchanged

\* lines 213-218: save_mask is read from the config
RaceReadSaveMask ==
    /\ race.cl = "config"
    /\ SetCM(CM)
    /\ race' = IF cfg.saveMask THEN RaceReturn(race)
               ELSE [race EXCEPT !.cl = "remove"]
    /\ RaceUnchanged

\* lines 220-221 and 229-231: os.remove(p), outside any lock block; it raises
\* when the file is gone or locked and the call returns False
RaceOsRemove(fails) ==
    /\ race.cl = "remove"
    /\ IF fails \/ RacePath \notin disk
       THEN /\ SetCM(CM)
            /\ race' = RaceReturn(race)
       ELSE /\ SetCM(OsRemove(CM, RacePath, "try_cleanup"))
            /\ race' = [race EXCEPT !.cl = "discard",
                                    !.heldDel = @ \/ race.rg = "using"]
    /\ RaceUnchanged

\* lines 224-228: the path leaves the pending set, return True
RaceDiscardPending ==
    /\ race.cl = "discard"
    /\ SetCM([CM EXCEPT !.pending = @ \ {RacePath}])
    /\ race' = RaceReturn(race)
    /\ RaceUnchanged

NextRace ==
    \/ RaceSaveFile
    \/ RaceRegister
    \/ RaceUnregister
    \/ RaceExists
    \/ RaceInUseCheck
    \/ RaceAddPending
    \/ RaceReadSaveMask
    \/ \E fails \in BOOLEAN : RaceOsRemove(fails)
    \/ RaceDiscardPending

SpecRace == InitRace /\ [][NextRace]_vars

\* C19 as stated: whatever the interleaving of the two threads, p is not
\* removed between the return of register_file_in_use(p) and the matching
\* unregister_file_in_use(p).
C19_AsStated == ~race.heldDel

(***************************************************************************)
(* SpecHold: two stages register and unregister the adjusted masks while   *)
(* cleanups are asked for.  `holds` is the history of who has registered   *)
(* a path and not yet unregistered it; the coordinator itself keeps only   *)
(* the set _active_files.                                                  *)
(***************************************************************************)
HoldStages == {"levels", "crop"}

InitHold ==
    /\ active = {} /\ pending = {} /\ dels = {}
    /\ disk = {}
    /\ cfg \in {c \in Configs : ~c.crop /\ ~c.solid /\ ~c.jpg}
    /\ cmLast = NoCall
    /\ PipeIdle
    /\ SessIdle
    /\ batch = << >> /\ race = << >> /\ call = << >>
    /\ holds = {}

HoldUnchanged == UNCHANGED <<cfg, cmLast, pipeVars, sess, batch, race, call>>

\* a stage writes the mask again (adjusted_mask.save)
HoldSaveFile(p) ==
    /\ p \notin disk
    /\ SetCM([CM EXCEPT !.disk = @ \cup {p}])
    /\ UNCHANGED holds
    /\ HoldUnchanged

\* register_file_in_use(p) called by `stage`
HoldRegister(stage, p) ==
    /\ [stage |-> stage, path |-> p] \notin holds
    /\ SetCM(RegisterFileInUse(CM, p))
    /\ holds' = holds \cup {[stage |-> stage, path |-> p]}
    /\ HoldUnchanged

\* unregister_file_in_use(p) called by a stage that registered p
HoldUnregister(stage, p) ==
    /\ [stage |-> stage, path |-> p] \in holds
    /\ SetCM(UnregisterFileInUse(CM, p))
    /\ holds' = holds \ {[stage |-> stage, path |-> p]}
    /\ HoldUnchanged

\* cleanup_adjusted_mask_if_safe(p)
HoldTryCleanup(p, rmFail) ==
    /\ SetCM(CleanupAdjustedMaskIfSafe(CM, p, cfg.saveMask, rmFail).cm)
    /\ UNCHANGED holds
    /\ HoldUnchanged

NextHold ==
    \/ \E p \in CmMasks : HoldSaveFile(p)
    \/ \E st \in HoldStages, p \in CmMasks : HoldRegister(st, p)
    \/ \E st \in HoldStages, p \in CmMasks : HoldUnregister(st, p)
    \/ \E p \in CmMasks, rmFail \in SUBSET CmMasks : HoldTryCleanup(p, rmFail)

SpecHold == InitHold /\ [][NextHold]_vars

\* the stages holding a registration on p
Holders(p) == {h \in holds : h.path = p}

\* C20 as stated: a path registered by some stage that has not unregistered
\* it is reported as in use, and try_cleanup removes no path that a stage
\* still holds.
C20_AsStated ==
    /\ \A p \in CmMasks : Holders(p) # {} => IsFileInUse(CM, p)
    /\ \A d \in dels : d.by = "try_cleanup" => Holders(d.path) = {}

\* C21 as stated: when try_cleanup(p) reaches os.remove and the removal fails
\* (p is an adjusted mask on disk, not in use, save_mask off, the call returns
\* False), p is in the pending-cleanup set afterwards, so that the next
\* process_pending_cleanup sweep tries it again.
C21_AsStated ==
    (/\ cmLast.op = "try_cleanup"
     /\ HasAdjustedTag(cmLast.path)
     /\ cmLast.wasOnDisk
     /\ ~cmLast.wasActive
     /\ ~cfg.saveMask
     /\ ~cmLast.ret) => cmLast.path \in pending

(***************************************************************************)
(* SpecRel: several images of one folder, some with a stem that contains   *)
(* an app suffix or that begins like another stem; the levels stage writes *)
(* and registers their adjusted masks and final_cleanup_for_image is       *)
(* called with the paths the stages pass to it.                            *)
(***************************************************************************)
RelStems == {"a", "a_mask", "ab"}

RelTags == {1234, 5678}

RelMask(st, t) == File(CmDir, st, "_mask_adjusted", Digits(t), "png")

RelMasks == {RelMask(st, t) : st \in RelStems, t \in RelTags}

\* the path a stage hands to the cleanup for the image (st, t): the enhanced
\* image, the solid-background image or the JPG
RelImage(st, t, kind) ==
    IF kind = "jpg" THEN File(Join(Dirname(CmDir), "JPG"), st, "", Digits(t), "jpg")
    ELSE File(CmDir, st, kind, Digits(t), "png")

InitRel ==
    /\ active = {} /\ pending = {} /\ dels = {} /\ disk = {}
    /\ cfg \in {c \in Configs : ~c.crop /\ ~c.solid /\ ~c.jpg}
    /\ cmLast = NoCall
    /\ PipeIdle
    /\ SessIdle
    /\ batch = << >> /\ race = << >> /\ holds = {}
    /\ call = [op |-> "none", stem |-> "", tag |-> 0, before |-> {}]

RelUnchanged == UNCHANGED <<cfg, cmLast, pipeVars, sess, batch, race, holds>>

\* enhance_transparency_with_levels lines 427-437: the adjusted mask of the
\* image is saved and registered
RelLevels(st, t) ==
    /\ RelMask(st, t) \notin disk
    /\ SetCM(RegisterFileInUse([CM EXCEPT !.disk = @ \cup {RelMask(st, t)}],
                               RelMask(st, t)))
    /\ call' = [op |-> "levels", stem |-> st, tag |-> t, before |-> active]
    /\ RelUnchanged

\* final_cleanup_for_image(image_path)
RelFinalCleanup(st, t, kind, rmFail) ==
    /\ SetCM(FinalCleanupForImage(CM, RelImage(st, t, kind), cfg.saveMask, rmFail))
    /\ call' = [op |-> "final_cleanup", stem |-> st, tag |-> t, before |-> active]
    /\ RelUnchanged

NextRel ==
    \/ \E st \in RelStems, t \in RelTags : RelLevels(st, t)
    \/ \E st \in RelStems, t \in RelTags,
          kind \in {"_transparent", "_solid_background", "jpg"},
          rmFail \in {{}, RelMasks} : RelFinalCleanup(st, t, kind, rmFail)

SpecRel == InitRel /\ [][NextRel]_vars

\* C22 as stated: final_cleanup_for_image for image A removes and unregisters
\* no adjusted mask but A's own, whatever other stems and timestamp tags the
\* folder holds.
C22_AsStated ==
    call.op = "final_cleanup" =>
        /\ \A d \in dels : d.path = RelMask(call.stem, call.tag)
        /\ \A m \in call.before \ active : m = RelMask(call.stem, call.tag)

(***************************************************************************)
(* The levels adjustment of a mask (image_utils) at its three call sites.  *)
(* numpy computes in float32: a value is kept as [m, k], meaning m / 2^k   *)
(* with 2^23 <= m < 2^24 (m = 0 for zero), rounded to nearest, ties to     *)
(* even, after each operation.                                             *)
(***************************************************************************)
MaxPixel == 255

Pixels == 0..MaxPixel

Min2(a, b) == IF a <= b THEN a ELSE b

Max2(a, b) == IF a >= b THEN a ELSE b

\* np.clip(a, lo, hi) = minimum(maximum(a, lo), hi), also when lo > hi
NpClip(a, lo, hi) == Min2(Max2(a, lo), hi)

\* round to nearest, ties to even: mantissa m with the dropped part `low` out
\* of `whole`
RoundEven(m, low, whole) ==
    IF 2 * low > whole \/ (2 * low = whole /\ m % 2 = 1) THEN m + 1 ELSE m

\* float32(num) / float32(den) for 0 < num <= den <= 255, by long division:
\* m collects the quotient bits, k counts the binary places
RECURSIVE DivF32(_, _, _, _)
DivF32(rem, den, m, k) ==
    IF m >= 2^23
    THEN LET r == RoundEven(m, rem, den)
         IN IF r = 2^24 THEN [m |-> 2^23, k |-> k - 1] ELSE [m |-> r, k |-> k]
    ELSE LET bit == IF 2 * rem >= den THEN 1 ELSE 0
         IN DivF32(2 * rem - bit * den, den, 2 * m + bit, k + 1)

\* The same with the divisor one too large
NormDenOffByOne(black, white) == Max2(1, white - black + 1)

\* max(1.0, input_white - input_black)
NormDen(black, white) == Max2(1, white - black)

\* x * 255.0 in float32, for x = [m, k] not zero: the product m * 255 is
\* formed as hi * 2^8 + lo and rounded to 24 bits
MulF32By255(x) ==
    LET a == MaxPixel * (x.m \div 256)
        b == MaxPixel * (x.m % 256)
        hi == a + b \div 256
        lo == b % 256
    IN IF hi >= 2^23
       THEN LET r == RoundEven(hi, lo, 256)
            IN IF r = 2^24 THEN [m |-> 2^23, k |-> x.k - 9] ELSE [m |-> r, k |-> x.k - 8]
       ELSE LET r == RoundEven(2 * hi + lo \div 128, lo % 128, 128)
            IN [m |-> r, k |-> x.k - 7]

\* np.clip(x, 0, 255).astype(np.uint8) for x = [m, k] >= 0: truncation
ToUint8(x) == Min2(MaxPixel, IF x.k >= 0 THEN x.m \div 2^(x.k) ELSE MaxPixel)

\* gamma of the midpoint is a whole number only for mid_point = 0 (2.0)
GammaIsWhole(mid) == mid = 0

\* _apply_levels_to_mask_impl on one pixel value v.  The result keeps the
\* normalised value num/den of before the gamma step and what the pixel
\* becomes: kind "value" with val; kind "nan" when np.power is given a
\* negative base and a fractional gamma (the cast of NaN to uint8 is not
\* defined); kind "pow" for a base strictly between 0 and 1 raised to a
\* gamma # 1, whose float32 value is not computed here.
ApplyLevelsToPixel(v, black, mid, white) ==
    LET num == NpClip(v, black, white) - black
        den == NormDen(black, white)
        px(kind, val) == [kind |-> kind, val |-> val, num |-> num, den |-> den]
    IN IF num < 0
       THEN IF mid = 128 THEN px("value", 0)
            ELSE IF GammaIsWhole(mid) THEN px("value", MaxPixel)
            ELSE px("nan", 0)
       ELSE IF num = 0 THEN px("value", 0)
       ELSE IF mid # 128 /\ num < den THEN px("pow", 0)
       ELSE IF mid # 128 /\ num = den THEN px("value", MaxPixel)
       ELSE px("value", ToUint8(MulF32By255(DivF32(num, den, 0, 0))))

\* create_binary_mask on one pixel value: 255 above the threshold, else 0
CreateBinaryMaskPixel(v, black, white, threshold) ==
    [kind |-> "value", val |-> IF v > threshold THEN MaxPixel ELSE 0,
     num |-> 0, den |-> 1]

\* using_extreme_settings
UsingExtremeSettings(black, mid, white) == white < 10 \/ black > 240 \/ mid < 10

\* threshold of the binary branch
BinaryThreshold(black, white) ==
    IF white < 10 THEN Max2(10, white * 10)
    ELSE IF black > 240 THEN Min2(240, black)
    ELSE 127

\* the adjusted mask made of one call site: the branch taken, the threshold
\* (0 on the continuous branch) and what every pixel value becomes
AdjustedMask(binary, black, mid, white) ==
    [branch |-> IF binary THEN "binary" ELSE "levels",
     threshold |-> IF binary THEN BinaryThreshold(black, white) ELSE 0,
     out |-> [v \in Pixels |->
                 IF binary
                 THEN CreateBinaryMaskPixel(v, black, white,
                                            BinaryThreshold(black, white))
                 ELSE ApplyLevelsToPixel(v, black, mid, white)]]

\* enhance_transparency_with_levels lines 381-404 (the final render)
FinalRenderMask(black, mid, white) ==
    AdjustedMask(UsingExtremeSettings(black, mid, white), black, mid, white)

\* MainWindow._update_mask_preview_if_needed lines 600-620
UpdatePreviewMask(black, mid, white) ==
    AdjustedMask(white < 10 \/ black > 240 \/ mid < 10, black, mid, white)

\* MainWindow._on_mask_generated lines 693-707: always apply_levels_to_mask
GeneratedPreviewMask(black, mid, white) ==
    AdjustedMask(FALSE, black, mid, white)

(***************************************************************************)
(* SpecLevels: the levels settings are drawn from the slider range and one *)
(* call site produces the adjusted mask.                                   *)
(***************************************************************************)
BlackPoints == {0, 1, 100, 241, 255}

MidPoints == {0, 5, 128, 200}

WhitePoints == {0, 5, 50, 100, 254, 255}

InitLevels ==
    /\ active = {} /\ pending = {} /\ dels = {} /\ disk = {}
    /\ cfg = [saveMask |-> TRUE, crop |-> FALSE, solid |-> FALSE, jpg |-> FALSE]
    /\ cmLast = NoCall
    /\ PipeIdle
    /\ SessIdle
    /\ batch = << >> /\ race = << >> /\ holds = {}
    /\ \E b \in BlackPoints, m \in MidPoints, w \in WhitePoints :
          call = [op |-> "settings", black |-> b, mid |-> m, white |-> w,
                  mask |-> << >>]

CallUnchanged ==
    UNCHANGED <<active, pending, disk, dels, cfg, cmLast, pipeVars, sess, batch, race,
                holds>>

LevelsFinalRender ==
    /\ call.op = "settings"
    /\ call' = [call EXCEPT !.op = "final",
                            !.mask = FinalRenderMask(call.black, call.mid, call.white)]
    /\ CallUnchanged

LevelsUpdatePreview ==
    /\ call.op = "settings"
    /\ call' = [call EXCEPT !.op = "preview_update",
                            !.mask = UpdatePreviewMask(call.black, call.mid, call.white)]
    /\ CallUnchanged

LevelsGeneratedPreview ==
    /\ call.op = "settings"
    /\ call' = [call EXCEPT !.op = "preview_generated",
                            !.mask = GeneratedPreviewMask(call.black, call.mid,
                                                          call.white)]
    /\ CallUnchanged

NextLevels ==
    \/ LevelsFinalRender
    \/ LevelsUpdatePreview
    \/ LevelsGeneratedPreview

SpecLevels == InitLevels /\ [][NextLevels]_vars

\* C23 as stated: for the same settings every preview call site takes the
\* branch and the threshold of the final render and yields the same adjusted
\* mask.
C23_AsStated ==
    call.op \in {"preview_update", "preview_generated"} =>
        call.mask = FinalRenderMask(call.black, call.mid, call.white)

\* C24: with black = 0, mid = 128, white = 255 the levels adjustment maps
\* every pixel value v in 0..255 to v.
C24_IdentityLevels ==
    (/\ call.op \in {"final", "preview_update", "preview_generated"}
     /\ call.black = 0 /\ call.mid = 128 /\ call.white = MaxPixel) =>
        /\ call.mask.branch = "levels"
        /\ \A v \in Pixels :
              call.mask.out[v].kind = "value" /\ call.mask.out[v].val = v

\* the final render ran with the identity settings and kept a mid grey
C24_Witness ==
    /\ call.op = "final"
    /\ call.black = 0 /\ call.mid = 128 /\ call.white = MaxPixel
    /\ call.mask.out[200].val = 200
    /\ call.mask.out[1].val = 1

\* C25 as stated: for every black, mid and white, apply_levels_to_mask keeps
\* the normalised value within [0, 1] before the gamma step, gives every
\* pixel a defined value in 0..255, and is non-decreasing in the pixel value.
C25_AsStated ==
    (call.op # "settings" /\ call.mask.branch = "levels") =>
        \A v \in Pixels :
            LET o == call.mask.out[v]
            IN /\ 0 <= o.num /\ o.num <= o.den
               /\ o.kind # "nan"
               /\ o.val \in Pixels
               /\ \A u \in Pixels :
                     (u < v /\ o.kind = "value" /\ call.mask.out[u].kind = "value")
                         => call.mask.out[u].val <= o.val

(***************************************************************************)
(* SpecGeom: the bounds scans of image_crop / solid_background on small    *)
(* masks, and the smart margins on boxes inside small images.  A mask is   *)
(* given by `content`, the pixels <<x, y>> whose value is above the        *)
(* detection threshold (every other pixel is at or below it).              *)
(***************************************************************************)
MaxSide == 3

MaxMargin == 3

\* the columns / rows in which np.max(...) > threshold
Columns(content) == {c[1] : c \in content}

Rows(content) == {c[2] : c \in content}

\* while i < n: if the line i has content: break; i += 1
RECURSIVE ScanForward(_, _, _)
ScanForward(occupied, i, n) ==
    IF i < n /\ i \notin occupied THEN ScanForward(occupied, i + 1, n) ELSE i

\* while i >= 0: if the line i has content: break; i -= 1
RECURSIVE ScanBackward(_, _)
ScanBackward(occupied, i) ==
    IF i >= 0 /\ i \notin occupied THEN ScanBackward(occupied, i - 1) ELSE i

\* image_crop.get_crop_bounds: {} for None, else {<<left, top, right, bottom>>}
GetCropBounds(content, width, height, margin) ==
    LET left == ScanForward(Columns(content), 0, width)
        right == ScanBackward(Columns(content), width - 1)
        top == ScanForward(Rows(content), 0, height)
        bottom == ScanBackward(Rows(content), height - 1)
    IN IF left >= right \/ top >= bottom THEN {}
       ELSE {<< Max2(0, left - margin), Max2(0, top - margin),
                Min2(width, right + 1 + margin), Min2(height, bottom + 1 + margin) >>}

\* solid_background.get_content_bounds on an RGBA image
GetContentBounds(content, width, height) ==
    LET left == ScanForward(Columns(content), 0, width)
        right == ScanBackward(Columns(content), width - 1)
        top == ScanForward(Rows(content), 0, height)
        bottom == ScanBackward(Rows(content), height - 1)
    IN IF left >= right \/ top >= bottom THEN {<< 0, 0, width, height >>}
       ELSE {<< left, top, right + 1, bottom + 1 >>}

\* The same, giving the requested margin whatever the space
SmartMarginUnclamped(requested, available) == requested

\* calculate_smart_margins, one side: min(requested_margin, available)
SmartMargin(requested, available) == Min2(requested, available)

\* available_left, available_top, available_right, available_bottom
Available(bounds, width, height) ==
    << bounds[1], bounds[2], width - bounds[3], height - bounds[4] >>

\* solid_background.calculate_smart_margins
CalculateSmartMargins(bounds, width, height, requested) ==
    [i \in 1..4 |-> SmartMargin(requested, Available(bounds, width, height)[i])]

Cells(width, height) == (0..(width - 1)) \X (0..(height - 1))

\* the boxes <<left, top, right, bottom>> inside an image, right and bottom
\* exclusive
Boxes(width, height) ==
    {b \in (0..width) \X (0..height) \X (0..width) \X (0..height) :
        b[1] < b[3] /\ b[2] < b[4]}

\* a 10x10 opaque block centred in a 100x100 transparent canvas
BlockScenario ==
    [op |-> "mask", width |-> 100, height |-> 100,
     content |-> (45..54) \X (45..54), bounds |-> << >>, m1 |-> 0, m2 |-> 0,
     res |-> << >>]

InitGeom ==
    /\ active = {} /\ pending = {} /\ dels = {} /\ disk = {}
    /\ cfg = [saveMask |-> TRUE, crop |-> TRUE, solid |-> TRUE, jpg |-> FALSE]
    /\ cmLast = NoCall
    /\ PipeIdle
    /\ SessIdle
    /\ batch = << >> /\ race = << >> /\ holds = {}
    /\ \/ \E width \in 1..MaxSide, height \in 1..MaxSide :
             \E content \in SUBSET Cells(width, height) :
                call = [op |-> "mask", width |-> width, height |-> height,
                        content |-> content, bounds |-> << >>, m1 |-> 0, m2 |-> 0,
                        res |-> << >>]
       \/ call = BlockScenario
       \/ \E width \in 1..MaxSide, height \in 1..MaxSide :
             \E bounds \in Boxes(width, height) :
                \E m1 \in 0..MaxMargin, m2 \in 0..MaxMargin :
                   /\ m1 < m2
                   /\ call = [op |-> "box", width |-> width, height |-> height,
                              content |-> {}, bounds |-> bounds, m1 |-> m1,
                              m2 |-> m2, res |-> << >>]

\* crop_transparent_image asks for the crop bounds of the mask (margin 0)
GeomCropBounds ==
    /\ call.op = "mask"
    /\ call' = [call EXCEPT !.op = "crop_bounds",
                   !.res = GetCropBounds(call.content, call.width, call.height, 0)]
    /\ CallUnchanged

\* add_solid_background asks for the content bounds of the image
GeomContentBounds ==
    /\ call.op = "mask"
    /\ call' = [call EXCEPT !.op = "content_bounds",
                   !.res = GetContentBounds(call.content, call.width, call.height)]
    /\ CallUnchanged

\* the smart margins of the box for the two requested margins
GeomSmartMargins ==
    /\ call.op = "box"
    /\ call' = [call EXCEPT !.op = "margins",
                   !.res = << CalculateSmartMargins(call.bounds, call.width,
                                                    call.height, call.m1),
                              CalculateSmartMargins(call.bounds, call.width,
                                                    call.height, call.m2) >>]
    /\ CallUnchanged

NextGeom ==
    \/ GeomCropBounds
    \/ GeomContentBounds
    \/ GeomSmartMargins

SpecGeom == InitGeom /\ [][NextGeom]_vars

\* C26: for requested margins m2 > m1 >= 0 each of the four margins computed
\* for m2 is at least the one computed for m1, and no computed margin is
\* negative or larger than the space available on its side.
C26_MarginsMonotone ==
    call.op = "margins" =>
        \A i \in 1..4 :
            /\ call.res[1][i] <= call.res[2][i]
            /\ 0 <= call.res[1][i]
            /\ call.res[2][i] <= Available(call.bounds, call.width, call.height)[i]

\* a side with less space than the larger request: the margin is cut to it
C26_Witness ==
    /\ call.op = "margins"
    /\ call.m1 = 1 /\ call.m2 = 3
    /\ Available(call.bounds, call.width, call.height)[1] = 2
    /\ call.res[1][1] = 1 /\ call.res[2][1] = 2

\* the tight box of the content, right and bottom exclusive
TightBox(content) ==
    << CHOOSE x \in Columns(content) : \A y \in Columns(content) : x <= y,
       CHOOSE x \in Rows(content) : \A y \in Rows(content) : x <= y,
       1 + CHOOSE x \in Columns(content) : \A y \in Columns(content) : x >= y,
       1 + CHOOSE x \in Rows(content) : \A y \in Rows(content) : x >= y >>

\* C27 as stated: when some pixel is above the threshold the scan with margin
\* 0 returns the tight box of the pixels above the threshold, whatever their
\* extent; no-crop (get_crop_bounds) or the full frame (get_content_bounds)
\* is returned only when no pixel is above the threshold.
C27_AsStated ==
    /\ call.op = "crop_bounds" =>
          call.res = IF call.content = {} THEN {} ELSE {TightBox(call.content)}
    /\ call.op = "content_bounds" =>
          call.res = IF call.content = {}
                     THEN {<< 0, 0, call.width, call.height >>}
                     ELSE {TightBox(call.content)}

\* C28 as stated: whatever the output directory, the source image stays on
\* disk, no step removes it, and the raw cutout the pipeline writes is not
\* written over it.
C28_AsStated ==
    /\ Source \in disk
    /\ \A d \in dels : d.path # Source
    /\ pc = "cutout" => Cutout # Source

\* C29 as stated: when the pipeline of the image has ended, completed or
\* failed, and no setting was changed meanwhile, the in-use set holds no
\* path, whatever the config.
C29_AsStated ==
    (toggles = 0 /\ pc \in {"completed", "failed"}) => active = {}

(***************************************************************************)
(* SpecProgress: process_files over entries that are supported images,     *)
(* directories holding some images, or anything else, with the percent     *)
(* values sent through the progress signal.                                *)
(***************************************************************************)
MaxEntries == 3

MaxDirImages == 2

\* the entries of self.file_paths: a supported image file, a directory with
\* n supported images under it (_get_image_files_in_dir), or another path
Entries ==
    {[kind |-> "image", n |-> 1], [kind |-> "other", n |-> 0]}
        \cup {[kind |-> "dir", n |-> n] : n \in 0..MaxDirImages}

\* int(processed / total_files * 100).  The float64 quotient is truncated; it
\* equals the exact quotient for the totals and counts reached here (the
\* first difference is at 23 / 5).
Percent(processed, total) == (processed * 100) \div total

\* the fixed percents process_image and its stages emit for one image: all
\* of them on a full run, the first ones when the image is given up early
ProcessImagePercents(full) ==
    IF full THEN {5, 8, 10, 11, 20, 30, 40, 50, 65, 70, 80, 90} ELSE {5, 10, 20}

InitProgress ==
    /\ active = {} /\ pending = {} /\ dels = {} /\ disk = {}
    /\ cfg = [saveMask |-> TRUE, crop |-> TRUE, solid |-> FALSE, jpg |-> FALSE]
    /\ cmLast = NoCall
    /\ PipeIdle
    /\ SessIdle
    /\ batch = << >> /\ race = << >> /\ holds = {}
    /\ \E n \in 1..MaxEntries : \E files \in [1..n -> Entries] :
          call = [op |-> "loop",
                  files |-> files,       \* self.file_paths
                  i |-> 1,               \* position of the outer loop
                  j |-> 0,               \* images done in the current directory
                  processed |-> 0,
                  percents |-> {}]       \* history: the percents emitted

\* one image goes through process_image, then processed += 1 and the
\* percent of the batch is emitted
ImageDone(c, full) ==
    [c EXCEPT !.processed = @ + 1,
              !.percents = @ \cup ProcessImagePercents(full)
                             \cup {Percent(c.processed + 1, Len(c.files))}]

\* process_files lines 81-91 and 101-103: the next entry is an image file or
\* a path that is neither a supported file nor a directory
ProgressFile(full) ==
    /\ call.op = "loop" /\ call.i <= Len(call.files)
    /\ call.files[call.i].kind \in {"image", "other"}
    /\ call' = IF call.files[call.i].kind = "image"
               THEN [ImageDone(call, full) EXCEPT !.i = @ + 1]
               ELSE [call EXCEPT !.i = @ + 1, !.processed = @ + 1,
                                 !.percents = @ \cup {Percent(call.processed + 1,
                                                              Len(call.files))}]
    /\ CallUnchanged

\* lines 93-100: the next image of a directory entry, or the end of the
\* directory
ProgressDirectory(full) ==
    /\ call.op = "loop" /\ call.i <= Len(call.files)
    /\ call.files[call.i].kind = "dir"
    /\ call' = IF call.j < call.files[call.i].n
               THEN [ImageDone(call, full) EXCEPT !.j = @ + 1]
               ELSE [call EXCEPT !.i = @ + 1, !.j = 0]
    /\ CallUnchanged

\* lines 106-107: the loop is over and finished is emitted
ProgressFinish ==
    /\ call.op = "loop" /\ call.i > Len(call.files)
    /\ call' = [call EXCEPT !.op = "finished"]
    /\ CallUnchanged

NextProgress ==
    \/ \E full \in BOOLEAN : ProgressFile(full)
    \/ \E full \in BOOLEAN : ProgressDirectory(full)
    \/ ProgressFinish

SpecProgress == InitProgress /\ [][NextProgress]_vars

\* C30 as stated: every percent emitted through the progress signal during
\* a batch lies in 0..100.
C30_AsStated == \A x \in call.percents : 0 <= x /\ x <= 100

====
